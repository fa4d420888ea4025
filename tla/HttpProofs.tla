----------------------------- MODULE HttpProofs -----------------------------
(***************************************************************************)
(* Proofs about HTTP and what runs over it.  HttpServer: the dispatcher    *)
(* holds what was registered, for any patterns and servlets, and the       *)
(* answers are to the requests in their order, for any lines and any cuts. *)
(* HttpClient: the request is sent once, whatever the server answers, and  *)
(* the response comes back as it was sent, in any chunks and clean cuts.   *)
(* WebSocket: messages arrive whole and in order, for any number of them.  *)
(***************************************************************************)
EXTENDS HttpServer, HttpClient, WebSocket, TLAPS, SequenceTheorems,
        FiniteSetTheorems, WellFoundedInduction, NaturalsInduction

-----------------------------------------------------------------------------
(* The glob servlets.                                                      *)

Entries == Patterns \X Servlets

\* A call between its two critical sections has the entries of its pattern
\* deleted; of every other pattern the entry is the one wanted.
Registered ==
    \A g \in Entries :
        g \in ToSet(globs) <=> /\ wanted[g[1]] = g[2]
                               /\ \A t \in Registrars :
                                     \A e \in reg[t] : e[1] # g[1]

Once == \A i, j \in DOMAIN globs : globs[i][1] = globs[j][1] => i = j

GlobInv ==
    /\ globs \in Seq(Entries)
    /\ reg \in [Registrars -> SUBSET Entries]
    /\ wanted \in [Patterns -> Servlets \cup {NotFound}]
    /\ \A t \in Registrars : \A e, f \in reg[t] : e = f
    /\ Once /\ Registered

\* Only one thread registers.
OneRegistrar == \A s, t \in Registrars : s = t

\* A non-empty set of positions in a sequence has a first one.
LEMMA MinIsFirst ==
    ASSUME NEW S \in SUBSET Nat, S # {}
    PROVE  Min(S) \in S /\ \A n \in S : Min(S) <= n
<1>1. \E m \in S : \A n \in S : <<n, m>> \notin OpToRel(<, Nat)
    BY NatLessThanWellFounded, WFMin, Zenon
<1>2. \A m, n \in Nat : n < m => <<n, m>> \in OpToRel(<, Nat)
    BY DEF OpToRel
<1>3. PICK m \in S : \A n \in S : <<n, m>> \notin OpToRel(<, Nat)
    BY <1>1, Zenon
<1>4. \A n \in S : ~(n < m)
    BY <1>2, <1>3, Zenon
<1>5. \A n \in S : m <= n
    BY <1>4
<1> QED BY <1>5 DEF Min

\* The sequence without its entry at k: the others, each once.
LEMMA Removal ==
    ASSUME NEW S, NEW q \in Seq(S), NEW k \in 1..Len(q)
    PROVE  LET n == RemoveAt(q, k)
           IN  /\ n \in Seq(S) /\ Len(n) = Len(q) - 1
               /\ \A i \in 1..k - 1 : n[i] = q[i]
               /\ \A i \in k..Len(q) - 1 : n[i] = q[i + 1]
<1> DEFINE a == SubSeq(q, 1, k - 1)
           b == SubSeq(q, k + 1, Len(q))
<1>1. /\ Len(q) \in Nat /\ k \in Nat /\ k >= 1 /\ k <= Len(q)
      /\ \A i \in 1..Len(q) : q[i] \in S
    OBVIOUS
<1>2. /\ a \in Seq(S) /\ Len(a) = k - 1
      /\ \A i \in 1..k - 1 : a[i] = q[i]
    BY <1>1, SubSeqProperties
<1>3. /\ b \in Seq(S) /\ Len(b) = Len(q) - k
      /\ \A i \in 1..Len(q) - k : b[i] = q[k + i]
    BY <1>1, SubSeqProperties
<1>4. RemoveAt(q, k) = a \o b
    BY DEF RemoveAt
<1> HIDE DEF a, b
<1>5. /\ a \o b \in Seq(S) /\ Len(a \o b) = Len(q) - 1
      /\ \A i \in 1..Len(q) - 1 :
            (a \o b)[i] = IF i <= k - 1 THEN a[i] ELSE b[i - (k - 1)]
    BY <1>1, <1>2, <1>3, ConcatProperties
<1>6. \A i \in 1..k - 1 : (a \o b)[i] = q[i]
    BY <1>1, <1>2, <1>5
<1>7. \A i \in k..Len(q) - 1 : (a \o b)[i] = q[i + 1]
    BY <1>1, <1>3, <1>5
<1> QED BY <1>4, <1>5, <1>6, <1>7

\* delGlobServlet: of the pattern nothing is left, of the others everything.
LEMMA Deleting ==
    ASSUME globs \in Seq(Entries), Once, NEW u \in Patterns,
           NEW n, n = withoutGlob(u)
    PROVE  /\ n \in Seq(Entries)
           /\ \A i, j \in DOMAIN n : n[i][1] = n[j][1] => i = j
           /\ \A g : g \in ToSet(n) <=> g \in ToSet(globs) /\ g[1] # u
<1> DEFINE I == {i \in 1..Len(globs) : globs[i][1] = u}
<1>1. Len(globs) \in Nat /\ DOMAIN globs = 1..Len(globs)
    OBVIOUS
<1>2. CASE I = {}
    <2>1. n = globs
        BY <1>2 DEF withoutGlob, SelectInSeq
    <2> QED BY <1>1, <1>2, <2>1 DEF Once, ToSet
<1>3. CASE I # {}
    <2> DEFINE k == Min(I)
    <2>1. I \in SUBSET Nat
        BY <1>1
    <2>2. k \in I
        BY <1>3, <2>1, MinIsFirst
    <2>3. k \in 1..Len(globs) /\ k # 0 /\ globs[k][1] = u
        BY <1>1, <2>2
    <2>4. n = RemoveAt(globs, k)
        BY <1>3, <2>3 DEF withoutGlob, SelectInSeq
    <2> HIDE DEF k
    <2>5. /\ n \in Seq(Entries) /\ Len(n) = Len(globs) - 1
          /\ \A i \in 1..k - 1 : n[i] = globs[i]
          /\ \A i \in k..Len(globs) - 1 : n[i] = globs[i + 1]
        BY <2>3, <2>4, Removal
    <2> DEFINE old(i) == IF i < k THEN i ELSE i + 1
    <2>6. \A i \in DOMAIN n : /\ old(i) \in DOMAIN globs /\ old(i) # k
                              /\ n[i] = globs[old(i)]
        BY <1>1, <2>3, <2>5
    <2>7. \A j \in DOMAIN globs : j # k => \E i \in DOMAIN n : old(i) = j
        <3> SUFFICES ASSUME NEW j \in DOMAIN globs, j # k
                     PROVE  \E i \in DOMAIN n : old(i) = j
            OBVIOUS
        <3>1. DOMAIN n = 1..Len(globs) - 1
            BY <2>5
        <3>2. CASE j < k
            BY <1>1, <2>3, <3>1, <3>2
        <3>3. CASE j > k
            <4>1. j - 1 \in DOMAIN n /\ old(j - 1) = j
                BY <1>1, <2>3, <3>1, <3>3
            <4> QED BY <4>1
        <3> QED BY <1>1, <2>3, <3>2, <3>3
    <2>8. \A i, j \in DOMAIN n : old(i) = old(j) => i = j
        BY <1>1, <2>3, <2>5
    <2> HIDE DEF old
    <2>9. \A i, j \in DOMAIN n : n[i][1] = n[j][1] => i = j
        BY <2>6, <2>8 DEF Once
    <2>10. \A i \in DOMAIN n : n[i][1] # u
        BY <1>1, <2>3, <2>6 DEF Once
    <2>11. \A g : g \in ToSet(n) => g \in ToSet(globs) /\ g[1] # u
        BY <2>6, <2>10 DEF ToSet
    <2>12. \A g : g \in ToSet(globs) /\ g[1] # u => g \in ToSet(n)
        BY <2>3, <2>6, <2>7 DEF ToSet
    <2> QED BY <2>5, <2>9, <2>11, <2>12
<1> QED BY <1>2, <1>3

\* The dispatcher starts without servlets.
LEMMA GlobInit == DispatchInit => GlobInv
<1> SUFFICES ASSUME DispatchInit PROVE GlobInv
    OBVIOUS
<1>1. /\ globs = <<>> /\ DOMAIN globs = {} /\ globs \in Seq(Entries)
      /\ ToSet(globs) = {}
    BY DEF DispatchInit, ToSet
<1>2. \A g \in Entries : wanted[g[1]] # g[2]
    BY ServletsAssumption DEF DispatchInit, Entries
<1>3. /\ reg \in [Registrars -> SUBSET Entries]
      /\ wanted \in [Patterns -> Servlets \cup {NotFound}]
      /\ \A t \in Registrars : reg[t] = {}
    BY DEF DispatchInit
<1> QED BY <1>1, <1>2, <1>3 DEF GlobInv, Once, Registered

\* delGlobServlet and both halves of addGlobServlet, by the one thread that
\* registers.
LEMMA GlobNext ==
    ASSUME OneRegistrar, GlobInv, DispatchNext PROVE GlobInv'
<1>1. PICK t \in Registrars :
          \/ PushGlobServlet(t)
          \/ \E u \in Paths : DelServlet(t, u)
          \/ \E u \in Paths, s \in Servlets : AddServlet(t, u, s)
          \/ \E u \in Patterns : DelGlobServlet(t, u)
          \/ \E u \in Patterns, s \in Servlets : AddGlobServlet(t, u, s)
    BY DEF DispatchNext
<1>2. /\ globs \in Seq(Entries) /\ Once /\ Registered
      /\ reg \in [Registrars -> SUBSET Entries]
      /\ wanted \in [Patterns -> Servlets \cup {NotFound}]
      /\ \A r \in Registrars : r = t
      /\ \A e, f \in reg[t] : e = f
    BY DEF GlobInv, OneRegistrar
<1>3. CASE UNCHANGED <<globs, reg, wanted>>
    BY <1>2, <1>3 DEF GlobInv, Once, Registered
<1>4. ASSUME NEW u \in Patterns, DelGlobServlet(t, u) PROVE GlobInv'
    <2>1. /\ globs' = withoutGlob(u) /\ reg' = reg /\ reg[t] = {}
          /\ wanted' = [wanted EXCEPT ![u] = NotFound]
        BY <1>4 DEF DelGlobServlet, Call
    <2>2. /\ globs' \in Seq(Entries) /\ Once'
          /\ \A g : g \in ToSet(globs') <=> g \in ToSet(globs) /\ g[1] # u
        BY <1>2, <2>1, Deleting DEF Once
    <2>3. wanted' \in [Patterns -> Servlets \cup {NotFound}]
        BY <1>2, <2>1
    <2>4. \A g \in Entries : wanted'[g[1]] = g[2] <=>
                                 wanted[g[1]] = g[2] /\ g[1] # u
        BY <1>2, <2>1, ServletsAssumption DEF Entries
    <2>5. Registered'
        BY <1>2, <2>1, <2>2, <2>4 DEF Registered
    <2> QED BY <1>2, <2>1, <2>2, <2>3, <2>5 DEF GlobInv
<1>5. ASSUME NEW u \in Patterns, NEW s \in Servlets, AddGlobServlet(t, u, s)
      PROVE  GlobInv'
    <2>1. /\ globs' = withoutGlob(u) /\ wanted' = wanted /\ reg[t] = {}
          /\ reg' = [reg EXCEPT ![t] = {<<u, s>>}]
        BY <1>5 DEF AddGlobServlet, Call
    <2>2. /\ globs' \in Seq(Entries) /\ Once'
          /\ \A g : g \in ToSet(globs') <=> g \in ToSet(globs) /\ g[1] # u
        BY <1>2, <2>1, Deleting DEF Once
    <2>3. reg' \in [Registrars -> SUBSET Entries] /\ reg'[t] = {<<u, s>>}
        BY <1>2, <2>1 DEF Entries
    <2>4. \A g \in Entries : (\A r \in Registrars : \A e \in reg'[r] :
                                  e[1] # g[1]) <=> g[1] # u
        <3>1. \A g : (\A e \in reg'[t] : e[1] # g[1]) <=> g[1] # u
            BY <2>3
        <3> QED BY <1>2, <3>1
    <2>5. \A g \in Entries : g \in ToSet(globs) <=> wanted[g[1]] = g[2]
        BY <1>2, <2>1 DEF Registered
    <2>6. Registered'
        BY <2>1, <2>2, <2>4, <2>5 DEF Registered
    <2> QED BY <1>2, <2>1, <2>2, <2>3, <2>6 DEF GlobInv
<1>6. CASE PushGlobServlet(t)
    <2>1. PICK e \in reg[t] :
              /\ globs' = Append(globs, e)
              /\ wanted' = [wanted EXCEPT ![e[1]] = e[2]]
        BY <1>6 DEF PushGlobServlet
    <2>2. reg' = [reg EXCEPT ![t] = {}]
        BY <1>6 DEF PushGlobServlet
    <2>3. e \in Entries /\ e[1] \in Patterns /\ e[2] \in Servlets
        BY <1>2, <2>1 DEF Entries
    <2>4. /\ globs' \in Seq(Entries)
          /\ Len(globs) \in Nat /\ DOMAIN globs = 1..Len(globs)
          /\ DOMAIN globs' = 1..Len(globs) + 1
          /\ \A i \in DOMAIN globs : globs'[i] = globs[i]
          /\ globs'[Len(globs) + 1] = e
        BY <1>2, <2>1, <2>3, AppendProperties
    <2>5. /\ reg' \in [Registrars -> SUBSET Entries]
          /\ \A r \in Registrars : reg'[r] = {}
        BY <1>2, <2>2
    <2>6. /\ wanted' \in [Patterns -> Servlets \cup {NotFound}]
          /\ wanted'[e[1]] = e[2]
          /\ \A v \in Patterns : v # e[1] => wanted'[v] = wanted[v]
        BY <1>2, <2>1, <2>3
    <2>7. \A g \in Entries : g \in ToSet(globs) <=>
                                 wanted[g[1]] = g[2] /\ g[1] # e[1]
        BY <1>2, <2>1 DEF Registered
    <2>8. \A i \in DOMAIN globs : globs[i] \in Entries /\ globs[i][1] # e[1]
        BY <1>2, <2>7 DEF ToSet
    <2>9. Once'
        BY <1>2, <2>4, <2>8 DEF Once
    <2>10. \A g : g \in ToSet(globs') <=> g \in ToSet(globs) \/ g = e
        BY <2>4 DEF ToSet
    <2>11. \A g \in Entries : g = <<g[1], g[2]>> /\ g[1] \in Patterns
        BY DEF Entries
    <2>12. Registered'
        <3> SUFFICES ASSUME NEW g \in Entries
                     PROVE  g \in ToSet(globs') <=> wanted'[g[1]] = g[2]
            BY <2>5 DEF Registered
        <3>1. CASE g[1] = e[1]
            <4>1. g = e <=> g[2] = e[2]
                BY <2>3, <2>11, <3>1
            <4> QED BY <2>6, <2>7, <2>10, <3>1, <4>1
        <3>2. CASE g[1] # e[1]
            BY <2>6, <2>7, <2>10, <2>11, <3>2
        <3> QED BY <3>1, <3>2
    <2> QED BY <2>4, <2>5, <2>6, <2>9, <2>12 DEF GlobInv
<1> QED BY <1>1, <1>3, <1>4, <1>5, <1>6 DEF DelServlet, AddServlet

\* The loops only look servlets up: a step of the server is one of the
\* dispatcher, or leaves it alone.
LEMMA DispatchSteps == [Next]_vars => DispatchNext \/ UNCHANGED dispatchVars
<1> SUFFICES ASSUME [Next]_vars
             PROVE  DispatchNext \/ UNCHANGED dispatchVars
    OBVIOUS
<1>1. CASE \E k \in 1..2 * MaxLines, c \in BOOLEAN : HandleRead(k, c)
    BY <1>1 DEF HandleRead
<1>2. CASE \E l \in Lines : ClientSends(l)
    BY <1>2 DEF ClientSends
<1> QED BY <1>1, <1>2 DEF Next, vars

\* When one thread registers servlets, any number of them for any patterns,
\* m_globServlets holds between its calls what was registered last and not
\* deleted, once (addGlobServlet and delGlobServlet of HttpDispatch and
\* WSDispatch).
THEOREM GlobsAlwaysAsRegistered ==
    ASSUME OneRegistrar
    PROVE  Spec => []GlobsAsRegistered
<1>1. Init => GlobInv
    BY GlobInit DEF Init
<1>2. GlobInv /\ [Next]_vars => GlobInv'
    <2>1. CASE UNCHANGED dispatchVars
        BY <2>1 DEF dispatchVars, GlobInv, Once, Registered
    <2> QED BY <2>1, GlobNext, DispatchSteps
<1>3. GlobInv => GlobsAsRegistered
    <2> SUFFICES ASSUME GlobInv, \A t \in Registrars : reg[t] = {}
                 PROVE  /\ Once
                        /\ ToSet(globs) =
                               {g \in Entries : wanted[g[1]] = g[2]}
        BY DEF GlobsAsRegistered, Once, Entries
    <2>1. \A g \in ToSet(globs) : g \in Entries
        BY DEF GlobInv, ToSet
    <2>2. \A g \in Entries : g \in ToSet(globs) <=> wanted[g[1]] = g[2]
        BY DEF GlobInv, Registered
    <2> QED BY <2>1, <2>2 DEF GlobInv
<1> QED BY <1>1, <1>2, <1>3, PTL DEF Spec

-----------------------------------------------------------------------------
(* The answers.                                                            *)

\* The answers o are to the requests hd.
Matches(o, hd) ==
    \A i \in DOMAIN o :
        /\ i < Len(o) => ~o[i].close
        /\ o[i].servlet # "400" => i <= Len(hd) /\ o[i].request = hd[i]

\* While the connection is up, every request dispatched has been answered
\* and no answer has closed.
InStep(o, st, hd) ==
    /\ \E S : o \in Seq(S)
    /\ \E S : hd \in Seq(S)
    /\ st = "Connected" => /\ Len(o) = Len(hd)
                           /\ \A i \in DOMAIN o : ~o[i].close
    /\ Matches(o, hd)

AnswerInv == InStep(out, state, handled)

\* A sequence of whatever kind with one more element.
LEMMA OneMore ==
    ASSUME NEW S, NEW q \in Seq(S), NEW e, NEW n, n = Append(q, e)
    PROVE  /\ \E T : n \in Seq(T)
           /\ Len(q) \in Nat /\ DOMAIN q = 1..Len(q)
           /\ Len(n) = Len(q) + 1 /\ DOMAIN n = 1..Len(q) + 1
           /\ \A i \in 1..Len(q) : n[i] = q[i]
           /\ n[Len(q) + 1] = e
<1>1. q \in Seq(S \cup {e}) /\ e \in S \cup {e}
    OBVIOUS
<1> QED BY <1>1, AppendProperties

\* A 400 is the last answer.
LEMMA RefusalKeeps ==
    ASSUME NEW o, NEW st, NEW hd, InStep(o, st, hd),
           NEW a, a = answer(o, st, BadRequest)
    PROVE  InStep(a.out, a.state, hd) /\ a.state # "Connected"
<1>1. /\ a.out = IF st = "Connected" THEN Append(o, BadRequest) ELSE o
      /\ a.state = "Disconnecting"
      /\ BadRequest.servlet = "400"
    BY DEF answer, BadRequest
<1>2. CASE st = "Connected"
    <2>1. a.out = Append(o, BadRequest)
        BY <1>1, <1>2
    <2>2. PICK S : o \in Seq(S)
        BY DEF InStep
    <2>3. /\ \E T : a.out \in Seq(T)
          /\ Len(o) \in Nat /\ DOMAIN o = 1..Len(o)
          /\ Len(a.out) = Len(o) + 1 /\ DOMAIN a.out = 1..Len(o) + 1
          /\ \A i \in 1..Len(o) : a.out[i] = o[i]
          /\ a.out[Len(o) + 1] = BadRequest
        BY <2>1, <2>2, OneMore
    <2>4. Matches(a.out, hd)
        BY <1>1, <1>2, <2>3 DEF Matches, InStep
    <2> QED BY <1>1, <2>3, <2>4 DEF InStep
<1>3. CASE st # "Connected"
    BY <1>1, <1>3 DEF InStep
<1> QED BY <1>2, <1>3

\* The answer to the request that is dispatched now.
LEMMA AnswerKeeps ==
    ASSUME NEW o, NEW st, NEW hd, InStep(o, st, hd),
           NEW x, NEW a, a = answer(o, st, x)
    PROVE  InStep(a.out, a.state, Append(hd, x.request))
<1> DEFINE n == Append(hd, x.request)
<1>1. /\ a.out = IF st = "Connected" THEN Append(o, x) ELSE o
      /\ a.state = IF x.close THEN "Disconnecting" ELSE st
    BY DEF answer
<1>2. PICK S : hd \in Seq(S)
    BY DEF InStep
<1>0. n = Append(hd, x.request)
    OBVIOUS
<1> HIDE DEF n
<1>3. /\ \E T : n \in Seq(T)
      /\ Len(hd) \in Nat /\ Len(n) = Len(hd) + 1
      /\ \A i \in 1..Len(hd) : n[i] = hd[i]
      /\ n[Len(hd) + 1] = x.request
    BY <1>0, <1>2, OneMore
<1>4. PICK R : o \in Seq(R)
    BY DEF InStep
<1>5. Len(o) \in Nat /\ DOMAIN o = 1..Len(o)
    BY <1>4
<1>6. CASE st = "Connected"
    <2>1. a.out = Append(o, x)
        BY <1>1, <1>6
    <2>2. /\ \E T : a.out \in Seq(T)
          /\ Len(a.out) = Len(o) + 1 /\ DOMAIN a.out = 1..Len(o) + 1
          /\ \A i \in 1..Len(o) : a.out[i] = o[i]
          /\ a.out[Len(o) + 1] = x
        BY <2>1, <1>4, OneMore
    <2>3. Len(o) = Len(hd) /\ \A i \in DOMAIN o : ~o[i].close
        BY <1>6 DEF InStep
    <2>4. \A i \in DOMAIN o : o[i].servlet # "400" => o[i].request = hd[i]
        BY DEF InStep, Matches
    <2>5. Matches(a.out, n)
        BY <1>3, <1>5, <2>2, <2>3, <2>4 DEF Matches
    <2>6. a.state = "Connected" => ~x.close
        BY <1>1
    <2>7. a.state = "Connected" => \A i \in DOMAIN a.out : ~a.out[i].close
        BY <1>5, <2>2, <2>3, <2>6
    <2> QED BY <1>3, <2>2, <2>3, <2>5, <2>7 DEF InStep, n
<1>7. CASE st # "Connected"
    <2>1. a.out = o /\ a.state # "Connected"
        BY <1>1, <1>7
    <2>2. Matches(o, n)
        BY <1>3, <1>5 DEF InStep, Matches
    <2> QED BY <1>3, <2>1, <2>2 DEF InStep, n
<1> QED BY <1>6, <1>7

\* onMessage, whatever the parser has made of the read.
LEMMA OnMessageKeeps ==
    ASSUME AnswerInv, NEW r, NEW c, onMessage(r, c) PROVE AnswerInv'
<1> DEFINE req == r.p.request
           a == IF r.ok THEN [out |-> out, state |-> state]
                ELSE answer(out, state, BadRequest)
           servlet == getMatchedServlet(req.path)
           x == [request |-> req, servlet |-> servlet,
                 close |-> mustClose(req) \/ (c /\ servlet # NotFound)]
           b == answer(a.out, a.state, x)
<1>1. InStep(a.out, a.state, handled)
    <2>1. CASE r.ok
        BY <2>1 DEF AnswerInv
    <2>2. CASE ~r.ok
        <3>1. a = answer(out, state, BadRequest)
            BY <2>2
        <3> HIDE DEF a
        <3> QED BY <3>1, RefusalKeeps DEF AnswerInv
    <2> QED BY <2>1, <2>2
<1>2. CASE isFinished(r.p)
    <2>1. out' = b.out /\ state' = b.state /\ handled' = Append(handled, req)
        BY <1>2 DEF onMessage
    <2>2. x.request = req
        OBVIOUS
    <2> HIDE DEF a, x, req
    <2>3. InStep(b.out, b.state, Append(handled, x.request))
        BY <1>1, AnswerKeeps
    <2> QED BY <2>1, <2>2, <2>3 DEF AnswerInv
<1>3. CASE ~isFinished(r.p)
    <2>1. out' = a.out /\ state' = a.state /\ handled' = handled
        BY <1>3 DEF onMessage
    <2> QED BY <1>1, <2>1 DEF AnswerInv
<1> QED BY <1>2, <1>3

-----------------------------------------------------------------------------
(* The parser.                                                             *)

\* A non-empty set of numbers up to n has a greatest element.
LEMMA MaxIsLast ==
    ASSUME NEW n \in Nat, NEW S \in SUBSET (1..n), S # {}
    PROVE  Max(S) \in S /\ \A m \in S : Max(S) >= m
<1> DEFINE T == {n - m : m \in S}
<1>1. T \in SUBSET Nat /\ T # {}
    <2>1. \A m \in S : n - m \in Nat
        OBVIOUS
    <2> QED BY <2>1
<1>2. Min(T) \in T /\ \A t \in T : Min(T) <= t
    BY <1>1, MinIsFirst
<1>3. PICK m \in S : Min(T) = n - m
    BY <1>2
<1>4. \A k \in S : m >= k
    <2> SUFFICES ASSUME NEW k \in S PROVE m >= k
        OBVIOUS
    <2>1. n - m <= n - k
        BY <1>2, <1>3
    <2> QED BY <2>1
<1> QED BY <1>4 DEF Max

\* Induction up to n, by the first number that is not in S.
LEMMA UpTo ==
    ASSUME NEW n \in Nat, NEW S, 0 \in S,
           \A m \in 1..n : m - 1 \in S => m \in S
    PROVE  \A m \in 0..n : m \in S
<1> SUFFICES ASSUME NEW k \in 0..n, k \notin S PROVE FALSE
    OBVIOUS
<1> DEFINE Bad == {m \in 0..n : m \notin S}
<1>1. Bad \in SUBSET Nat /\ Bad # {}
    OBVIOUS
<1>2. Min(Bad) \in Bad /\ \A m \in Bad : Min(Bad) <= m
    BY <1>1, MinIsFirst
<1>3. PICK m \in Bad : \A j \in Bad : m <= j
    BY <1>2
<1>4. m \in 0..n /\ m \notin S /\ m # 0
    BY <1>3
<1>5. m - 1 \in 0..n /\ m - 1 \notin Bad
    BY <1>3, <1>4
<1> QED BY <1>4, <1>5

\* The loop of parserHttpRequest is well defined.
LEMMA TurnsDef ==
    ASSUME NEW p, NEW L, Len(L) \in Nat, NEW f, f = ParserTurns(p, L)
    PROVE  /\ f[0] = [p |-> p, used |-> 0, returned |-> FALSE, ok |-> FALSE]
           /\ \A i \in 1..Len(L) : f[i] = ParserTurn(f[i - 1], L[i])
<1> DEFINE n == Len(L)
           base == [p |-> p, used |-> 0, returned |-> FALSE, ok |-> FALSE]
           Value(g, i) == IF i = 0 THEN base ELSE ParserTurn(g[i - 1], L[i])
           Fit(g, k) == g = [i \in 0..k |-> Value(g, i)]
           S == {k \in 0..n : \E g : Fit(g, k)}
<1>1. 0 \in S
    <2>1. Fit([i \in 0..0 |-> base], 0)
        OBVIOUS
    <2>2. \E g : Fit(g, 0)
        BY <2>1, Zenon
    <2> QED BY <2>2
<1>2. ASSUME NEW m \in 1..n, m - 1 \in S PROVE m \in S
    <2>1. PICK g : Fit(g, m - 1)
        BY <1>2
    <2> DEFINE w == [i \in 0..m |-> IF i = m THEN ParserTurn(g[m - 1], L[m])
                                    ELSE g[i]]
    <2>2. ASSUME NEW i \in 0..m PROVE w[i] = Value(w, i)
        <3>1. CASE i = m
            <4>1. w[m] = ParserTurn(g[m - 1], L[m]) /\ w[m - 1] = g[m - 1]
                OBVIOUS
            <4> HIDE DEF w
            <4> QED BY <3>1, <4>1
        <3>2. CASE i # m
            <4>1. i \in 0..m - 1 /\ (i # 0 => i - 1 \in 0..m - 1)
                BY <3>2
            <4>2. g[i] = Value(g, i)
                BY <2>1, <4>1
            <4>3. w[i] = g[i] /\ (i # 0 => w[i - 1] = g[i - 1])
                BY <3>2, <4>1
            <4> HIDE DEF w
            <4> QED BY <4>2, <4>3
        <3> QED BY <3>1, <3>2
    <2>3. Fit(w, m)
        <3>1. w = [i \in 0..m |-> w[i]]
            OBVIOUS
        <3> HIDE DEF w
        <3> QED BY <2>2, <3>1
    <2> HIDE DEF w
    <2> QED BY <2>3
<1>3. n \in S
    <2> HIDE DEF S, n
    <2>1. n \in Nat /\ n \in 0..n
        BY DEF n
    <2>2. \A m \in 1..n : m - 1 \in S => m \in S
        BY <1>2
    <2> QED BY <1>1, <2>1, <2>2, UpTo
<1>4. \E g : Fit(g, n)
    BY <1>3
<1>5. Fit(f, n)
    BY <1>4, Zenon DEF ParserTurns
<1>6. \A i \in 0..n : f[i] = Value(f, i)
    BY <1>5
<1>7. 0 \in 0..n /\ \A i \in 1..n : i \in 0..n /\ i # 0
    OBVIOUS
<1>8. f[0] = Value(f, 0) /\ \A i \in 1..n : f[i] = Value(f, i)
    BY <1>6, <1>7
<1>9. \A i \in 1..n : Value(f, i) = ParserTurn(f[i - 1], L[i])
    BY <1>7
<1> QED BY <1>8, <1>9

\* The first line that ends a request.
LEMMA EndIsFirst ==
    ASSUME NEW L, Len(L) \in Nat, NEW i \in Nat, Ends(L, i) # {}
    PROVE  /\ End(L, i) \in i + 1..Len(L) /\ L[End(L, i)].kind # "header"
           /\ \A j \in i + 1..End(L, i) - 1 : L[j].kind = "header"
<1>1. Ends(L, i) \in SUBSET Nat
    BY DEF Ends
<1>2. End(L, i) \in Ends(L, i) /\ \A j \in Ends(L, i) : End(L, i) <= j
    BY <1>1, MinIsFirst DEF End
<1> QED BY <1>2 DEF Ends

\* The requests from line i on are well defined.
Closed(L, i) ==
    i <= Len(L) /\ L[i].kind = "request" /\ Ends(L, i) # {}

LEMMA FromDef ==
    ASSUME NEW L, Len(L) \in Nat, NEW f, f = RequestsFrom(L)
    PROVE  \A i \in 1..Len(L) + 1 :
               f[i] = IF Closed(L, i)
                      THEN <<RequestAt(L, i, End(L, i))>> \o f[End(L, i) + 1]
                      ELSE <<>>
<1> DEFINE n == Len(L)
           Value(g, i) ==
               IF i > Len(L) \/ L[i].kind # "request" \/ Ends(L, i) = {}
               THEN <<>>
               ELSE <<RequestAt(L, i, End(L, i))>> \o g[End(L, i) + 1]
           Fit(g, k) == g = [i \in n + 1 - k..n + 1 |-> Value(g, i)]
           S == {k \in 0..n : \E g : Fit(g, k)}
<1>1. 0 \in S
    <2> DEFINE g == [i \in n + 1 - 0..n + 1 |-> <<>>]
    <2>1. \A i \in n + 1 - 0..n + 1 : Value(g, i) = <<>>
        OBVIOUS
    <2>2. Fit(g, 0)
        BY <2>1
    <2>3. \E w : Fit(w, 0)
        BY <2>2, Zenon
    <2> QED BY <2>3
<1>2. ASSUME NEW m \in 1..n, m - 1 \in S PROVE m \in S
    <2>1. PICK g : Fit(g, m - 1)
        BY <1>2
    <2> DEFINE c == n + 1 - m
               w == [i \in c..n + 1 |-> IF i = c THEN Value(g, c) ELSE g[i]]
    <2>2. ASSUME NEW i \in c..n + 1 PROVE w[i] = Value(w, i)
        <3>1. i \in Nat /\ c \in Nat
            OBVIOUS
        <3>2. ~(i > Len(L)) /\ Ends(L, i) # {} =>
                  End(L, i) + 1 \in c + 1..n + 1
            BY <3>1, EndIsFirst
        <3>3. ~(i > Len(L)) /\ Ends(L, i) # {} =>
                  w[End(L, i) + 1] = g[End(L, i) + 1]
            BY <3>2
        <3>4. Value(g, i) = Value(w, i)
            <4> HIDE DEF w
            <4> QED BY <3>3
        <3>5. i # c => i \in n + 1 - (m - 1)..n + 1
            OBVIOUS
        <3>6. i # c => g[i] = Value(g, i)
            BY <3>5, <2>1
        <3>7. w[i] = Value(g, i)
            <4> HIDE DEF Value
            <4> QED BY <3>6
        <3> HIDE DEF w, Value
        <3> QED BY <3>4, <3>7
    <2>3. Fit(w, m)
        <3>1. w = [i \in c..n + 1 |-> w[i]]
            OBVIOUS
        <3> HIDE DEF w, Value
        <3> QED BY <2>2, <3>1
    <2>4. \E k : Fit(k, m)
        <3> HIDE DEF w, Fit
        <3> QED BY <2>3, Zenon
    <2>5. m \in 0..n
        OBVIOUS
    <2> HIDE DEF Fit
    <2> QED BY <2>4, <2>5
<1>3. n \in S
    <2> HIDE DEF S, n
    <2>1. n \in Nat /\ n \in 0..n
        BY DEF n
    <2>2. \A m \in 1..n : m - 1 \in S => m \in S
        BY <1>2
    <2> QED BY <1>1, <2>1, <2>2, UpTo
<1>4. n + 1 - n = 1
    OBVIOUS
<1>5. \E g : g = [i \in 1..Len(L) + 1 |-> Value(g, i)]
    BY <1>3, <1>4
<1>6. f = [i \in 1..Len(L) + 1 |-> Value(f, i)]
    BY <1>5, Zenon DEF RequestsFrom
<1>7. \A i \in 1..Len(L) + 1 : f[i] = Value(f, i)
    BY <1>6
<1> QED BY <1>7 DEF Closed

\* B are the places where requests begin in L, up to s, where the one begins
\* that is not yet at its end.
Path(L, B, s) ==
    /\ B \subseteq 1..s /\ 1 \in B /\ s \in B
    /\ \A i \in B : i # s => Closed(L, i) /\ End(L, i) + 1 \in B

Open(L, s) ==
    /\ s \in 1..Len(L) + 1
    /\ s # Len(L) + 1 => /\ L[s].kind = "request"
                         /\ \A j \in s + 1..Len(L) : L[j].kind = "header"
    /\ \E B : Path(L, B, s)

\* M is L with one more line.
Longer(L, M) ==
    /\ Len(L) \in Nat /\ Len(M) = Len(L) + 1
    /\ \A j \in 1..Len(L) : M[j] = L[j]

\* A line that comes behind changes nothing of the requests before.
LEMMA SameBefore ==
    ASSUME NEW L, NEW M, Longer(L, M), NEW i \in 1..Len(L), Closed(L, i)
    PROVE  Closed(M, i) /\ End(M, i) = End(L, i)
<1>1. /\ Len(M) = Len(L) + 1 /\ Len(L) \in Nat
      /\ \A j \in 1..Len(L) : M[j] = L[j]
    BY DEF Longer
<1>2. /\ End(L, i) \in i + 1..Len(L) /\ L[End(L, i)].kind # "header"
      /\ \A j \in i + 1..End(L, i) - 1 : L[j].kind = "header"
    BY <1>1, EndIsFirst DEF Closed
<1>3. End(L, i) \in Ends(M, i)
    BY <1>1, <1>2 DEF Ends
<1>4. Closed(M, i)
    BY <1>1, <1>3 DEF Closed
<1>5. /\ End(M, i) \in i + 1..Len(M) /\ M[End(M, i)].kind # "header"
      /\ \A j \in i + 1..End(M, i) - 1 : M[j].kind = "header"
    <2>1. i \in Nat /\ Len(M) \in Nat /\ Ends(M, i) # {}
        BY <1>1, <1>3
    <2> QED BY <2>1, EndIsFirst
<1>6. \A j \in i + 1..End(L, i) - 1 : M[j].kind = "header"
    BY <1>1, <1>2
<1>7. M[End(L, i)].kind # "header"
    BY <1>1, <1>2
<1>8. ~(End(M, i) < End(L, i)) /\ ~(End(L, i) < End(M, i))
    BY <1>1, <1>2, <1>5, <1>6, <1>7
<1> QED BY <1>1, <1>2, <1>4, <1>5, <1>8

\* The request between two lines of L is the same in M.
LEMMA SameRequest ==
    ASSUME NEW L, NEW M, Longer(L, M), NEW i \in 1..Len(L),
           NEW e \in Nat, e <= Len(L) + 1
    PROVE  RequestAt(M, i, e) = RequestAt(L, i, e)
<1> DEFINE at(N, k) == {j \in i + 1..e - 1 : N[j].key = k}
           header(N, k) ==
               IF at(N, k) = {} THEN NoHeader ELSE N[Max(at(N, k))].value
<1>1. /\ Len(M) = Len(L) + 1 /\ Len(L) \in Nat
      /\ \A j \in 1..Len(L) : M[j] = L[j]
    BY DEF Longer
<1>2. \A k \in Keys : at(M, k) = at(L, k)
    BY <1>1
<1>3. ASSUME NEW k \in Keys, at(L, k) # {}
      PROVE  M[Max(at(L, k))] = L[Max(at(L, k))]
    <2>1. at(L, k) \in SUBSET (1..Len(L))
        BY <1>1
    <2> HIDE DEF at
    <2>2. Max(at(L, k)) \in at(L, k)
        BY <1>1, <1>3, <2>1, MaxIsLast
    <2> QED BY <1>1, <2>1, <2>2
<1>4. \A k \in Keys : header(M, k) = header(L, k)
    <2> HIDE DEF at
    <2> QED BY <1>2, <1>3
<1>5. \A N : RequestAt(N, i, e) =
            [path |-> N[i].path, version |-> N[i].version,
             headers |-> [k \in Keys |-> header(N, k)]]
    BY Zenon DEF RequestAt
<1> HIDE DEF header
<1> QED BY <1>1, <1>4, <1>5

\* The requests of L with one more line: those of L, and what the last one,
\* which begins at s, has become.
LEMMA Grown ==
    ASSUME NEW L, NEW M, Longer(L, M), NEW s, Open(L, s)
    PROVE  /\ \E T : RequestsIn(L) \in Seq(T)
           /\ RequestsIn(M) = RequestsIn(L) \o RequestsFrom(M)[s]
<1> DEFINE F == RequestsFrom(L)
           G == RequestsFrom(M)
           T == {RequestAt(M, i, e) : i \in Nat, e \in Nat}
           Q(i) == F[i] \in Seq(T) /\ G[i] = F[i] \o G[s]
<1>1. /\ Len(M) = Len(L) + 1 /\ Len(L) \in Nat
      /\ \A j \in 1..Len(L) : M[j] = L[j]
    BY DEF Longer
<1>2. PICK B : Path(L, B, s)
    BY DEF Open
<1>3. s \in Nat /\ s \in 1..Len(L) + 1 /\ s \in 1..Len(M) + 1
    BY <1>1 DEF Open
<1>4. /\ \A i \in 1..Len(L) + 1 :
             F[i] = IF Closed(L, i)
                    THEN <<RequestAt(L, i, End(L, i))>> \o F[End(L, i) + 1]
                    ELSE <<>>
      /\ \A i \in 1..Len(M) + 1 :
             G[i] = IF Closed(M, i)
                    THEN <<RequestAt(M, i, End(M, i))>> \o G[End(M, i) + 1]
                    ELSE <<>>
    <2>1. Len(M) \in Nat
        BY <1>1
    <2> QED BY <1>1, <2>1, FromDef
<1>0. \A i, e \in Nat : RequestAt(M, i, e) \in T
    OBVIOUS
<1>00. Len(M) \in Nat /\ Len(M) + 1 \in 1..Len(M) + 1
    BY <1>1
<1> HIDE DEF F, G, T
<1>5. G[s] \in Seq(T)
    <2>1. CASE ~Closed(M, s)
        <3>1. G[s] = <<>>
            BY <1>3, <1>4, <2>1
        <3> QED BY <3>1
    <2>2. CASE Closed(M, s)
        <3>1. End(M, s) \in s + 1..Len(M) /\ M[End(M, s)].kind # "header"
            <4>1. Ends(M, s) # {}
                BY <2>2 DEF Closed
            <4> QED BY <1>3, <1>00, <4>1, EndIsFirst
        <3>2. s <= Len(L) => End(M, s) = Len(M)
            BY <1>1, <1>3, <3>1 DEF Open
        <3>3. s <= Len(L)
            BY <1>1, <1>3, <3>1
        <3>4. ~Closed(M, Len(M) + 1)
            BY <1>1 DEF Closed
        <3>5. G[Len(M) + 1] = <<>>
            BY <1>00, <1>4, <3>4
        <3>6. G[s] = <<RequestAt(M, s, Len(M))>> \o <<>>
            BY <1>3, <1>4, <2>2, <3>2, <3>3, <3>5
        <3>7. RequestAt(M, s, Len(M)) \in T
            BY <1>0, <1>00, <1>3
        <3> QED BY <3>6, <3>7
    <2> QED BY <2>1, <2>2
<1>6. Q(s)
    <2>1. ~Closed(L, s)
        BY <1>3 DEF Closed, Open, Ends
    <2>2. F[s] = <<>>
        BY <1>3, <1>4, <2>1
    <2> QED BY <1>5, <2>2, ConcatEmptySeq
<1>7. ASSUME NEW i \in B, i # s, Q(End(L, i) + 1) PROVE Q(i)
    <2>1. /\ i \in Nat \ {0} /\ i \in 1..Len(L) + 1 /\ i \in 1..Len(M) + 1
          /\ Closed(L, i)
        BY <1>1, <1>2, <1>3, <1>7 DEF Path
    <2>2. Closed(M, i) /\ End(M, i) = End(L, i)
        <3>1. i \in 1..Len(L)
            BY <1>1, <2>1 DEF Closed
        <3>2. Closed(L, i)
            BY <2>1
        <3> QED BY <1>1, <3>1, <3>2, SameBefore
    <2>3. i \in 1..Len(L) /\ End(L, i) \in i + 1..Len(L)
        BY <1>1, <2>1, EndIsFirst DEF Closed
    <2> DEFINE e == End(L, i)
               r == RequestAt(M, i, e)
    <2>4. RequestAt(L, i, e) = r
        <3>1. e \in Nat /\ e <= Len(L) + 1
            BY <1>1, <2>3
        <3> HIDE DEF e
        <3> QED BY <1>1, <2>3, <3>1, SameRequest
    <2>5. F[i] = <<r>> \o F[e + 1] /\ G[i] = <<r>> \o G[e + 1]
        BY <1>4, <2>1, <2>2, <2>4
    <2>6. r \in T
        BY <1>0, <1>1, <2>1, <2>3
    <2>7. <<r>> \in Seq(T)
        BY <2>6
    <2> HIDE DEF r, e
    <2>8. F[e + 1] \in Seq(T) /\ G[e + 1] = F[e + 1] \o G[s]
        BY <1>7 DEF e
    <2>9. F[i] \in Seq(T)
        BY <2>5, <2>7, <2>8, ConcatProperties
    <2>10. (<<r>> \o F[e + 1]) \o G[s] = <<r>> \o (F[e + 1] \o G[s])
        <3> DEFINE y == F[e + 1]
                   z == G[s]
        <3>1. y \in Seq(T) /\ z \in Seq(T)
            BY <1>5, <2>8
        <3> HIDE DEF y, z
        <3>2. (<<r>> \o y) \o z = <<r>> \o (y \o z)
            BY <2>7, <3>1, ConcatAssociative
        <3> QED BY <3>2 DEF y, z
    <2> QED BY <2>5, <2>8, <2>9, <2>10
<1> HIDE DEF Q
<1> DEFINE U == {k \in 0..s : \A i \in B : i >= s - k => Q(i)}
<1>8. \A i \in B : i \in 1..s
    BY <1>2 DEF Path
<1>9. 0 \in U
    BY <1>3, <1>6, <1>8
<1>10. ASSUME NEW m \in 1..s, m - 1 \in U PROVE m \in U
    <2> SUFFICES ASSUME NEW i \in B, i >= s - m PROVE Q(i)
        BY <1>3
    <2>1. CASE i = s
        BY <1>6, <2>1
    <2>2. CASE i # s
        <3>1. Closed(L, i) /\ End(L, i) + 1 \in B
            BY <1>2, <2>2 DEF Path
        <3>2. End(L, i) \in i + 1..Len(L)
            BY <1>1, <1>8, <3>1, EndIsFirst DEF Closed
        <3>3. End(L, i) + 1 >= s - (m - 1)
            BY <1>3, <1>8, <3>2
        <3>4. Q(End(L, i) + 1)
            BY <1>10, <3>1, <3>3
        <3> QED BY <1>7, <2>2, <3>4
    <2> QED BY <2>1, <2>2
<1>11. s \in U
    <2> HIDE DEF U
    <2>1. \A m \in 1..s : m - 1 \in U => m \in U
        BY <1>10
    <2>2. \A m \in 0..s : m \in U
        BY <1>3, <1>9, <2>1, UpTo
    <2> QED BY <1>3, <2>2
<1>12. Q(1)
    BY <1>2, <1>3, <1>11 DEF Path
<1> QED BY <1>12 DEF Q, F, G, RequestsIn

\* The places where requests begin are still that with one more line.
LEMMA PathKeeps ==
    ASSUME NEW L, NEW M, Longer(L, M), NEW s \in Nat, NEW B, Path(L, B, s)
    PROVE  Path(M, B, s)
<1> SUFFICES ASSUME NEW i \in B, i # s
             PROVE  Closed(M, i) /\ End(M, i) + 1 \in B
    BY DEF Path
<1>1. Closed(L, i) /\ End(L, i) + 1 \in B /\ i \in 1..s
    BY DEF Path
<1>2. i \in 1..Len(L)
    BY <1>1 DEF Closed
<1>3. Closed(M, i) /\ End(M, i) = End(L, i)
    BY <1>1, <1>2, SameBefore
<1> QED BY <1>1, <1>3

\* A line that begins a request, or goes on with it, completes none.
LEMMA StaysOpen ==
    ASSUME NEW L, NEW M, Longer(L, M), NEW s, Open(L, s),
           \/ s = Len(L) + 1 /\ M[Len(M)].kind = "request"
           \/ s # Len(L) + 1 /\ M[Len(M)].kind = "header"
    PROVE  s \in 1..Len(M) /\ Open(M, s) /\ RequestsIn(M) = RequestsIn(L)
<1>1. /\ Len(M) = Len(L) + 1 /\ Len(L) \in Nat
      /\ \A j \in 1..Len(L) : M[j] = L[j]
    BY DEF Longer
<1>2. s \in 1..Len(M) /\ s \in Nat
    BY <1>1 DEF Open
<1>3. M[s].kind = "request" /\ \A j \in s + 1..Len(M) : M[j].kind = "header"
    BY <1>1, <1>2 DEF Open
<1>4. PICK B : Path(L, B, s)
    BY DEF Open
<1>5. Path(M, B, s)
    BY <1>1, <1>2, <1>4, PathKeeps
<1>6. Open(M, s)
    BY <1>2, <1>3, <1>5, <1>1 DEF Open
<1>7. ~Closed(M, s)
    BY <1>3 DEF Closed, Ends
<1>8. RequestsFrom(M)[s] = <<>>
    <2>1. Len(M) \in Nat /\ s \in 1..Len(M) + 1
        BY <1>1, <1>2
    <2> QED BY <1>7, <2>1, FromDef
<1>9. RequestsIn(M) = RequestsIn(L) \o <<>>
    BY <1>8, Grown
<1>10. PICK T : RequestsIn(L) \in Seq(T)
    BY Grown
<1> QED BY <1>2, <1>6, <1>9, <1>10, ConcatEmptySeq

\* A line without a colon completes the request that was begun.
LEMMA GetsClosed ==
    ASSUME NEW L, NEW M, Longer(L, M), NEW s, Open(L, s),
           s # Len(L) + 1, M[Len(M)].kind # "header"
    PROVE  /\ Open(M, Len(M) + 1)
           /\ RequestsIn(M) =
                  Append(RequestsIn(L), RequestAt(L, s, Len(L) + 1))
<1>1. /\ Len(M) = Len(L) + 1 /\ Len(L) \in Nat
      /\ Len(M) \in Nat
      /\ \A j \in 1..Len(L) : M[j] = L[j]
    BY DEF Longer
<1>2. s \in 1..Len(L) /\ s \in Nat
    BY <1>1 DEF Open
<1>3. /\ M[s].kind = "request" /\ M[Len(M)].kind # "header"
      /\ \A j \in s + 1..Len(M) - 1 : M[j].kind = "header"
    BY <1>1, <1>2 DEF Open
<1>4. Len(M) \in Ends(M, s)
    BY <1>1, <1>2, <1>3 DEF Ends
<1>5. Closed(M, s)
    BY <1>1, <1>2, <1>3, <1>4 DEF Closed
<1>6. End(M, s) = Len(M)
    <2>1. End(M, s) \in s + 1..Len(M) /\ M[End(M, s)].kind # "header"
        BY <1>1, <1>2, <1>4, EndIsFirst
    <2> QED BY <1>1, <1>2, <1>3, <2>1
<1>7. PICK B : Path(L, B, s)
    BY DEF Open
<1>8. Path(M, B, s)
    BY <1>1, <1>2, <1>7, PathKeeps
<1>9. Path(M, B \cup {Len(M) + 1}, Len(M) + 1)
    <2> DEFINE C == B \cup {Len(M) + 1}
    <2>1. C \subseteq 1..Len(M) + 1 /\ 1 \in C /\ Len(M) + 1 \in C
        <3>1. B \subseteq 1..s /\ 1 \in B
            BY <1>8 DEF Path
        <3>2. 1..s \subseteq 1..Len(M) + 1 /\ Len(M) + 1 \in 1..Len(M) + 1
            BY <1>1, <1>2
        <3> QED BY <3>1, <3>2
    <2>2. ASSUME NEW i \in B PROVE Closed(M, i) /\ End(M, i) + 1 \in C
        BY <1>5, <1>6, <1>8 DEF Path
    <2> QED BY <2>1, <2>2 DEF Path
<1>10. Open(M, Len(M) + 1)
    BY <1>1, <1>9 DEF Open
<1> DEFINE r == RequestAt(L, s, Len(L) + 1)
<1>11. RequestAt(M, s, Len(M)) = r
    <2>1. Len(L) + 1 \in Nat /\ Len(L) + 1 <= Len(L) + 1
        BY <1>1
    <2>2. RequestAt(M, s, Len(L) + 1) = r
        BY <1>1, <1>2, <2>1, SameRequest
    <2> QED BY <1>1, <2>2
<1> HIDE DEF r
<1>12. RequestsFrom(M)[s] = <<r>> \o RequestsFrom(M)[Len(M) + 1]
    <2>1. s \in 1..Len(M) + 1
        BY <1>1, <1>2
    <2> QED BY <1>1, <1>5, <1>6, <1>11, <2>1, FromDef
<1>13. RequestsFrom(M)[Len(M) + 1] = <<>>
    <2>1. Len(M) + 1 \in 1..Len(M) + 1 /\ ~Closed(M, Len(M) + 1)
        BY <1>1 DEF Closed
    <2> QED BY <1>1, <2>1, FromDef
<1>14. RequestsFrom(M)[s] = <<r>>
    BY <1>12, <1>13
<1>15. RequestsIn(M) = RequestsIn(L) \o <<r>>
    BY <1>14, Grown
<1>16. PICK T : RequestsIn(L) \in Seq(T)
    BY Grown
<1>17. RequestsIn(L) \in Seq(T \cup {r}) /\ r \in T \cup {r}
    BY <1>16
<1>18. RequestsIn(L) \o <<r>> = Append(RequestsIn(L), r)
    BY <1>17, AppendIsConcat
<1> QED BY <1>10, <1>15, <1>18 DEF r

\* The request begun at s with one more header.
LEMMA OneMoreHeader ==
    ASSUME NEW L, NEW M, Longer(L, M), NEW s \in 1..Len(L),
           NEW r, r = RequestAt(L, s, Len(L) + 1)
    PROVE  RequestAt(M, s, Len(M) + 1) =
               IF M[Len(M)].key \in Keys
               THEN [r EXCEPT !.headers[M[Len(M)].key] = M[Len(M)].value]
               ELSE r
<1> DEFINE at(N, e, k) == {j \in s + 1..e - 1 : N[j].key = k}
           header(N, e, k) ==
               IF at(N, e, k) = {} THEN NoHeader
               ELSE N[Max(at(N, e, k))].value
           l == M[Len(M)]
           n == Len(M)
<1>1. /\ n = Len(L) + 1 /\ Len(L) \in Nat /\ n \in Nat
      /\ \A j \in 1..Len(L) : M[j] = L[j]
      /\ n + 1 - 1 = n
    BY DEF Longer
<1>2. r = RequestAt(M, s, n)
    <2>1. Len(L) + 1 \in Nat /\ Len(L) + 1 <= Len(L) + 1
        BY <1>1
    <2> QED BY <1>1, <2>1, SameRequest
<1>3. \A e : RequestAt(M, s, e) =
            [path |-> M[s].path, version |-> M[s].version,
             headers |-> [k \in Keys |-> header(M, e, k)]]
    BY Zenon DEF RequestAt
<1>4. ASSUME NEW k \in Keys
      PROVE  header(M, n + 1, k) = IF k = l.key THEN l.value
                                   ELSE header(M, n, k)
    <2>1. CASE k = l.key
        <3>1. /\ at(M, n + 1, k) \in SUBSET (1..n)
              /\ n \in at(M, n + 1, k)
            BY <1>1, <2>1
        <3> HIDE DEF at
        <3>2. /\ Max(at(M, n + 1, k)) \in at(M, n + 1, k)
              /\ Max(at(M, n + 1, k)) >= n
            BY <1>1, <3>1, MaxIsLast
        <3>3. Max(at(M, n + 1, k)) = n
            BY <1>1, <3>1, <3>2
        <3> QED BY <2>1, <3>1, <3>3
    <2>2. CASE k # l.key
        <3>1. at(M, n + 1, k) = at(M, n, k)
            <4>1. \A j \in s + 1..n : M[j].key = k => j # n
                BY <2>2
            <4>2. \A j : j \in s + 1..n /\ j # n <=> j \in s + 1..n - 1
                BY <1>1
            <4> QED BY <1>1, <4>1, <4>2
        <3> HIDE DEF at
        <3> QED BY <2>2, <3>1
    <2> QED BY <2>1, <2>2
<1>5. r = [path |-> M[s].path, version |-> M[s].version,
           headers |-> [k \in Keys |-> header(M, n, k)]]
    BY <1>2, <1>3
<1>6. RequestAt(M, s, n + 1) =
          [path |-> M[s].path, version |-> M[s].version,
           headers |-> [k \in Keys |-> header(M, n + 1, k)]]
    BY <1>3
<1> HIDE DEF header, n, l
<1>7. CASE l.key \in Keys
    <2>1. [r EXCEPT !.headers[l.key] = l.value] =
              [path |-> M[s].path, version |-> M[s].version,
               headers |-> [r.headers EXCEPT ![l.key] = l.value]]
        BY <1>5
    <2>2. [r.headers EXCEPT ![l.key] = l.value] =
              [k \in Keys |-> header(M, n + 1, k)]
        BY <1>4, <1>5, <1>7
    <2> QED BY <1>6, <1>7, <2>1, <2>2 DEF n, l
<1>8. CASE l.key \notin Keys
    <2>1. \A k \in Keys : header(M, n + 1, k) = header(M, n, k)
        BY <1>4, <1>8
    <2> QED BY <1>5, <1>6, <1>8, <2>1 DEF n, l
<1> QED BY <1>7, <1>8

\* The parser after the lines L: what it holds is the request begun at s.
Partial(L, s) ==
    IF s = Len(L) + 1 THEN NewParser
    ELSE [state |-> "ParserHeaders", request |-> RequestAt(L, s, Len(L) + 1)]

Tracks(L, p, hd) ==
    \E s : Open(L, s) /\ hd = RequestsIn(L) /\ p = Partial(L, s)

\* The requests hd, and the one that the parser p has finished.
Dispatched(hd, p) == Append(hd, p.request)

\* The loop goes on, or has returned false, or true.
Going(p, u) == [p |-> p, used |-> u, returned |-> FALSE, ok |-> FALSE]
Refused(p, u) == [p |-> p, used |-> u, returned |-> TRUE, ok |-> FALSE]
Done(p, u) == [p |-> p, used |-> u, returned |-> TRUE, ok |-> TRUE]

\* One turn of the loop of parserHttpRequest.
LEMMA TurnTracks ==
    ASSUME NEW L, NEW M, Longer(L, M), NEW p, NEW hd, Tracks(L, p, hd),
           NEW u \in Nat,
           NEW b, b = ParserTurn(Going(p, u), M[Len(M)])
    PROVE  \/ \E q : Tracks(M, q, hd) /\ b = Going(q, u + 1)
           \/ b = Refused(p, u)
           \/ \E q : /\ b = Done(q, u + 1) /\ isFinished(q)
                     /\ Tracks(M, NewParser, Dispatched(hd, q))
<1> DEFINE l == M[Len(M)]
           a == Going(p, u)
<1>1. PICK s : Open(L, s) /\ hd = RequestsIn(L) /\ p = Partial(L, s)
    BY DEF Tracks
<1>2. Len(M) = Len(L) + 1 /\ Len(L) \in Nat /\ Len(M) \in Nat
    BY DEF Longer
<1>3. CASE s = Len(L) + 1 /\ l.kind # "request"
    <2>1. b = [a EXCEPT !.returned = TRUE]
        BY <1>1, <1>3 DEF ParserTurn, Going, Partial, NewParser
    <2> QED BY <2>1 DEF Going, Refused
<1>4. CASE s = Len(L) + 1 /\ l.kind = "request"
    <2> DEFINE q == parserRequestLine(p, l)
    <2>1. b = Going(q, u + 1)
        <3>1. b = [a EXCEPT !.p = q, !.used = u + 1]
            BY <1>1, <1>4 DEF ParserTurn, Going, Partial, NewParser
        <3> QED BY <3>1 DEF Going
    <2>2. s \in 1..Len(M) /\ Open(M, s) /\ RequestsIn(M) = RequestsIn(L)
        BY <1>1, <1>4, StaysOpen
    <2>3. q = [state |-> "ParserHeaders",
               request |-> [path |-> l.path, version |-> l.version,
                            headers |-> [k \in Keys |-> NoHeader]]]
        <3> DEFINE w == [k \in Keys |-> NoHeader]
        <3>1. p = [state |-> "ParserLine",
                   request |-> [path |-> "/", version |-> 11, headers |-> w]]
            BY <1>1, <1>4 DEF Partial, NewParser, NewRequest
        <3> HIDE DEF w
        <3>2. q = [state |-> "ParserHeaders",
                   request |-> [path |-> l.path, version |-> l.version,
                                headers |-> w]]
            <4> DEFINE y == [p EXCEPT !.state = "ParserHeaders"]
                       z == [y EXCEPT !.request.path = l.path]
            <4>1. q = [z EXCEPT !.request.version = l.version]
                BY Zenon DEF parserRequestLine
            <4>2. y = [state |-> "ParserHeaders",
                       request |-> [path |-> "/", version |-> 11,
                                    headers |-> w]]
                BY <3>1
            <4> HIDE DEF y
            <4>3. z = [state |-> "ParserHeaders",
                       request |-> [path |-> l.path, version |-> 11,
                                    headers |-> w]]
                BY <4>2
            <4> HIDE DEF z, q
            <4> QED BY <4>1, <4>3
        <3> QED BY <3>2 DEF w
    <2>4. RequestAt(M, s, Len(M) + 1) =
              [path |-> l.path, version |-> l.version,
               headers |-> [k \in Keys |-> NoHeader]]
        <3>1. s + 1..Len(M) + 1 - 1 = {} /\ s = Len(M)
            BY <1>2, <1>4
        <3> DEFINE at(e, k) == {j \in s + 1..e - 1 : M[j].key = k}
        <3>2. \A k : at(Len(M) + 1, k) = {}
            BY <3>1
        <3>3. \A e : RequestAt(M, s, e) =
                  [path |-> M[s].path, version |-> M[s].version,
                   headers |-> [k \in Keys |->
                       IF at(e, k) = {} THEN NoHeader
                       ELSE M[Max(at(e, k))].value]]
            BY Zenon DEF RequestAt
        <3> HIDE DEF at
        <3> QED BY <3>1, <3>2, <3>3
    <2>5. q = Partial(M, s)
        BY <1>2, <1>4, <2>3, <2>4 DEF Partial
    <2> HIDE DEF q
    <2> QED BY <1>1, <2>1, <2>2, <2>5 DEF Tracks
<1>5. CASE s # Len(L) + 1
    <2> DEFINE q == parserHeaders(p, l)
               r == RequestAt(L, s, Len(L) + 1)
    <2>1. b = IF isFinished(q) THEN Done(q, u + 1) ELSE Going(q, u + 1)
        <3>1. b = [a EXCEPT !.p = q, !.used = u + 1,
                            !.returned = isFinished(q), !.ok = isFinished(q)]
            BY <1>1, <1>5 DEF ParserTurn, Going, Partial
        <3>2. isFinished(q) \in BOOLEAN
            BY DEF isFinished
        <3> HIDE DEF q
        <3> QED BY <3>1, <3>2 DEF Going, Done
    <2>2. p = [state |-> "ParserHeaders", request |-> r]
        BY <1>1, <1>5 DEF Partial
    <2>3. s \in 1..Len(L)
        BY <1>1, <1>2, <1>5 DEF Open
    <2>4. CASE l.kind = "header"
        <3>1. s \in 1..Len(M) /\ Open(M, s) /\ RequestsIn(M) = RequestsIn(L)
            BY <1>1, <1>5, <2>4, StaysOpen
        <3>2. q = [state |-> "ParserHeaders",
                   request |-> IF l.key \in Keys
                               THEN [r EXCEPT !.headers[l.key] = l.value]
                               ELSE r]
            <4> HIDE DEF r
            <4> QED BY <2>2, <2>4 DEF parserHeaders
        <3>3. q.request = RequestAt(M, s, Len(M) + 1)
            <4>1. r = RequestAt(L, s, Len(L) + 1)
                OBVIOUS
            <4> HIDE DEF r
            <4>2. RequestAt(M, s, Len(M) + 1) =
                      IF l.key \in Keys
                      THEN [r EXCEPT !.headers[l.key] = l.value] ELSE r
                BY <2>3, <4>1, OneMoreHeader
            <4> QED BY <3>2, <4>2
        <3>4. q = Partial(M, s)
            BY <1>2, <3>1, <3>2, <3>3 DEF Partial
        <3>5. isFinished(q) = FALSE
            BY <3>2 DEF isFinished
        <3> HIDE DEF q
        <3> QED BY <1>1, <2>1, <3>1, <3>4, <3>5 DEF Tracks
    <2>5. CASE l.kind # "header"
        <3>1. Open(M, Len(M) + 1) /\ RequestsIn(M) = Append(RequestsIn(L), r)
            BY <1>1, <1>5, <2>5, GetsClosed
        <3>2. q = [state |-> "ParserFinished", request |-> r]
            <4> HIDE DEF r
            <4> QED BY <2>2, <2>5 DEF parserHeaders
        <3>3. isFinished(q) = TRUE /\ q.request = r
            BY <3>2 DEF isFinished
        <3>4. Partial(M, Len(M) + 1) = NewParser
            BY DEF Partial
        <3> HIDE DEF q, r
        <3>5. Tracks(M, NewParser, Dispatched(hd, q))
            BY <1>1, <3>1, <3>3, <3>4 DEF Tracks, Dispatched
        <3> QED BY <2>1, <3>3, <3>5
    <2> QED BY <2>4, <2>5
<1> QED BY <1>3, <1>4, <1>5

\* What the loop has done after the turn i, with the first u lines of Q taken
\* before.
Ran(Q, u, hd, a, i) ==
    \/ \E p : /\ a = Going(p, i)
              /\ Tracks(SubSeq(Q, 1, u + i), p, hd)
    \/ \E p, k : /\ a = Refused(p, k) /\ k \in 0..i
                 /\ Tracks(SubSeq(Q, 1, u + k), p, hd)
    \/ \E p, k : /\ a = Done(p, k) /\ k \in 0..i
                 /\ isFinished(p)
                 /\ Tracks(SubSeq(Q, 1, u + k), NewParser, Dispatched(hd, p))

\* One more turn of the loop.
LEMMA TurnRan ==
    ASSUME NEW S, NEW Q \in Seq(S), NEW u \in Nat, NEW i \in Nat \ {0},
           u + i <= Len(Q), NEW hd, NEW a, Ran(Q, u, hd, a, i - 1),
           NEW b, b = ParserTurn(a, Q[u + i])
    PROVE  Ran(Q, u, hd, b, i)
<1>1. CASE a.returned
    <2>1. b = a
        BY <1>1 DEF ParserTurn
    <2>2. \A k \in 0..i - 1 : k \in 0..i
        OBVIOUS
    <2> QED BY <1>1, <2>1, <2>2 DEF Ran, Going, Refused, Done
<1>2. CASE ~a.returned
    <2>1. PICK p : /\ a = Going(p, i - 1)
                   /\ Tracks(SubSeq(Q, 1, u + (i - 1)), p, hd)
        BY <1>2 DEF Ran, Going, Refused, Done
    <2> DEFINE L == SubSeq(Q, 1, u + (i - 1))
               M == SubSeq(Q, 1, u + i)
    <2>2. Longer(L, M) /\ M[Len(M)] = Q[u + i]
        <3>1. /\ u + (i - 1) \in Nat /\ u + (i - 1) < Len(Q)
              /\ u + (i - 1) + 1 = u + i
            OBVIOUS
        <3>2. Len(L) = u + (i - 1) /\ \A j \in 1..u + (i - 1) : L[j] = Q[j]
            BY <3>1, SubSeqProperties
        <3>3. Len(M) = u + i /\ \A j \in 1..u + i : M[j] = Q[j]
            BY <3>1, SubSeqProperties
        <3> HIDE DEF L, M
        <3> QED BY <3>1, <3>2, <3>3 DEF Longer
    <2>3. i - 1 \in Nat /\ i - 1 + 1 = i /\ i \in 0..i /\ i - 1 \in 0..i
        OBVIOUS
    <2>4. b = ParserTurn(Going(p, i - 1), M[Len(M)])
        BY <2>1, <2>2
    <2> HIDE DEF L, M
    <2>5. Tracks(L, p, hd)
        BY <2>1 DEF L
    <2>6. \/ \E q : Tracks(M, q, hd) /\ b = Going(q, i - 1 + 1)
          \/ b = Refused(p, i - 1)
          \/ \E q : /\ b = Done(q, i - 1 + 1) /\ isFinished(q)
                    /\ Tracks(M, NewParser, Dispatched(hd, q))
        <3> DEFINE w == i - 1
        <3>1. w \in Nat /\ b = ParserTurn(Going(p, w), M[Len(M)])
            BY <2>3, <2>4
        <3> HIDE DEF w
        <3>2. \/ \E q : Tracks(M, q, hd) /\ b = Going(q, w + 1)
              \/ b = Refused(p, w)
              \/ \E q : /\ b = Done(q, w + 1) /\ isFinished(q)
                        /\ Tracks(M, NewParser, Dispatched(hd, q))
            BY <2>2, <2>5, <3>1, TurnTracks
        <3> QED BY <3>2 DEF w
    <2>7. CASE \E q : Tracks(M, q, hd) /\ b = Going(q, i - 1 + 1)
        BY <2>3, <2>7 DEF Ran, M
    <2>8. CASE b = Refused(p, i - 1)
        BY <2>3, <2>5, <2>8 DEF Ran, L
    <2>9. CASE \E q : /\ b = Done(q, i - 1 + 1) /\ isFinished(q)
                      /\ Tracks(M, NewParser, Dispatched(hd, q))
        BY <2>3, <2>9 DEF Ran, M
    <2> QED BY <2>6, <2>7, <2>8, <2>9
<1> QED BY <1>1, <1>2

\* parserHttpRequest on the lines from u + 1 to c.
LEMMA ParserRan ==
    ASSUME NEW S, NEW Q \in Seq(S), NEW u \in Nat, NEW c \in Nat, u <= c,
           c <= Len(Q), NEW p, NEW hd, Tracks(SubSeq(Q, 1, u), p, hd),
           NEW ls, Len(ls) = c - u, \A i \in 1..c - u : ls[i] = Q[u + i],
           NEW r, r = parserHttpRequest(p, ls)
    PROVE  Ran(Q, u, hd, r, c - u)
<1> DEFINE n == c - u
           f == ParserTurns(p, ls)
           T == {i \in 0..n : Ran(Q, u, hd, f[i], i)}
<1>1. Len(ls) = n /\ n \in Nat /\ \A i \in 1..n : ls[i] = Q[u + i]
    OBVIOUS
<1>2. /\ f[0] = Going(p, 0)
      /\ \A i \in 1..n : f[i] = ParserTurn(f[i - 1], Q[u + i])
    <2>1. Len(ls) \in Nat
        BY <1>1
    <2>2. f = ParserTurns(p, ls)
        OBVIOUS
    <2> HIDE DEF f
    <2>3. /\ f[0] = [p |-> p, used |-> 0, returned |-> FALSE, ok |-> FALSE]
          /\ \A i \in 1..Len(ls) : f[i] = ParserTurn(f[i - 1], ls[i])
        BY <2>1, <2>2, TurnsDef
    <2> QED BY <1>1, <2>3 DEF Going
<1> HIDE DEF f
<1>3. 0 \in T
    <2>1. u + 0 = u /\ 0 \in 0..n
        BY <1>1
    <2> QED BY <1>2, <2>1 DEF Ran
<1>4. ASSUME NEW m \in 1..n, m - 1 \in T PROVE m \in T
    <2>1. m \in Nat \ {0} /\ u + m <= Len(Q) /\ m \in 0..n
        BY <1>1
    <2>2. Ran(Q, u, hd, f[m - 1], m - 1)
        BY <1>4
    <2>3. Ran(Q, u, hd, f[m], m)
        BY <1>2, <2>1, <2>2, TurnRan
    <2> QED BY <2>1, <2>3
<1>5. n \in T
    <2> HIDE DEF T, n
    <2>1. \A m \in 1..n : m - 1 \in T => m \in T
        BY <1>4
    <2>2. \A m \in 0..n : m \in T
        BY <1>1, <1>3, <2>1, UpTo
    <2> QED BY <1>1, <2>2
<1>6. r = f[n]
    BY <1>1 DEF parserHttpRequest, f
<1> QED BY <1>5, <1>6

\* The parser has taken the first lines of what was sent, and their requests
\* are those dispatched.
ReadInv ==
    /\ sent \in Seq(Lines) /\ used \in Nat /\ arrived \in Nat
    /\ 2 * used <= arrived /\ arrived <= 2 * Len(sent)
    /\ Tracks(SubSeq(sent, 1, used), parser, handled)

\* Nothing was sent, taken or dispatched.
LEMMA ReadInit == Init => ReadInv
<1> SUFFICES ASSUME Init PROVE ReadInv
    OBVIOUS
<1> DEFINE E == SubSeq(sent, 1, used)
<1>1. sent = <<>> /\ used = 0 /\ arrived = 0 /\ parser = NewParser
      /\ handled = <<>>
    BY DEF Init
<1>2. Len(E) = 0
    BY <1>1, SubSeqEmpty
<1> HIDE DEF E
<1>3. Path(E, {1}, 1)
    BY DEF Path
<1>4. Open(E, 1)
    BY <1>2, <1>3 DEF Open
<1>5. RequestsIn(E) = <<>>
    <2>1. 1 \in 1..Len(E) + 1 /\ ~Closed(E, 1) /\ Len(E) \in Nat
        BY <1>2 DEF Closed
    <2> QED BY <2>1, FromDef DEF RequestsIn
<1>6. Tracks(E, NewParser, <<>>)
    BY <1>2, <1>4, <1>5 DEF Tracks, Partial
<1> QED BY <1>1, <1>6 DEF ReadInv, E

\* A line that arrives leaves the lines taken as they are.
LEMMA SendsKeeps ==
    ASSUME ReadInv, NEW l \in Lines, ClientSends(l) PROVE ReadInv'
<1>1. /\ sent' = Append(sent, l)
      /\ UNCHANGED <<arrived, used, parser, handled>>
    BY DEF ClientSends
<1>2. /\ sent \in Seq(Lines) /\ used \in Nat /\ arrived \in Nat
      /\ 2 * used <= arrived /\ arrived <= 2 * Len(sent)
      /\ Len(sent) \in Nat
    BY DEF ReadInv
<1>3. /\ sent' \in Seq(Lines) /\ Len(sent') = Len(sent) + 1
      /\ \A i \in 1..Len(sent) : sent'[i] = sent[i]
    BY <1>1, <1>2, AppendProperties
<1>4. SubSeq(sent', 1, used) = SubSeq(sent, 1, used)
    <2>1. used <= Len(sent)
        BY <1>2
    <2> QED BY <1>2, <1>3, <2>1
<1>5. Tracks(SubSeq(sent, 1, used), parser, handled)
    BY DEF ReadInv
<1>6. Tracks(SubSeq(sent', 1, used'), parser', handled')
    BY <1>1, <1>4, <1>5, Zenon
<1>7. UNCHANGED <<arrived, used>>
    BY <1>1
<1> QED BY <1>2, <1>3, <1>6, <1>7 DEF ReadInv

\* A parser between two calls is not finished.
LEMMA TracksUnfinished ==
    ASSUME NEW L, NEW p, NEW hd, Tracks(L, p, hd)
    PROVE  p.state \in {"ParserLine", "ParserHeaders"} /\ ~isFinished(p)
BY DEF Tracks, Partial, NewParser, isFinished

\* What a read hands the parser: the lines of s after the first a, up to c.
LEMMA Piece ==
    ASSUME NEW s \in Seq(Lines), NEW a \in Nat, NEW c \in Nat,
           a <= c, c <= Len(s)
    PROVE  /\ Len(SubSeq(s, a + 1, c)) = c - a
           /\ \A i \in 1..c - a : SubSeq(s, a + 1, c)[i] = s[a + i]
<1>1. a + 1 \in Int /\ c \in Int /\ Len(s) \in Nat
    OBVIOUS
<1>2. \A i \in a + 1..c : s[i] \in Lines
    BY <1>1
<1>3. /\ Len(SubSeq(s, a + 1, c))
             = IF a + 1 <= c THEN c - (a + 1) + 1 ELSE 0
      /\ \A i \in 1..c - (a + 1) + 1 :
             SubSeq(s, a + 1, c)[i] = s[a + 1 + i - 1]
    BY <1>1, <1>2, SubSeqProperties
<1>4. \A i \in Int : a + 1 + i - 1 = a + i
    BY <1>1
<1>5. c - (a + 1) + 1 = c - a
    BY <1>1
<1> QED BY <1>1, <1>3, <1>4, <1>5

\* A read, and all that onMessage does.
LEMMA ReadKeeps ==
    ASSUME ReadInv, NEW k \in 1..2 * MaxLines, NEW b \in BOOLEAN,
           HandleRead(k, b)
    PROVE  ReadInv'
<1> DEFINE c == (arrived + k) \div 2
           ls == SubSeq(sent, used + 1, c)
           r == parserHttpRequest(parser, ls)
<1>1. /\ sent \in Seq(Lines) /\ used \in Nat /\ arrived \in Nat
      /\ 2 * used <= arrived /\ k \in Nat /\ Len(sent) \in Nat
      /\ arrived + k <= 2 * Len(sent)
      /\ Tracks(SubSeq(sent, 1, used), parser, handled)
    BY DEF ReadInv, HandleRead
<1>2. c \in Nat /\ used <= c /\ c <= Len(sent) /\ 2 * c <= arrived + k
    BY <1>1
<1>3. /\ sent' = sent /\ used' = used + r.used /\ arrived' = arrived + k
      /\ handled' = IF isFinished(r.p) THEN Append(handled, r.p.request)
                    ELSE handled
      /\ parser' = IF isFinished(r.p) THEN reset(r.p) ELSE r.p
    BY DEF HandleRead, onMessage
<1> HIDE DEF c
<1>4. Len(ls) = c - used /\ \A i \in 1..c - used : ls[i] = sent[used + i]
    BY <1>1, <1>2, Piece
<1> HIDE DEF ls
<1>5. Ran(sent, used, handled, r, c - used)
    BY <1>1, <1>2, <1>4, ParserRan
<1> HIDE DEF r
<1>6. PICK u \in 0..c - used :
          r.used = u /\ Tracks(SubSeq(sent, 1, used + u), parser', handled')
    <2>1. CASE \E p : /\ r = Going(p, c - used)
                      /\ Tracks(SubSeq(sent, 1, used + (c - used)), p, handled)
        BY <1>2, <1>1, <1>3, <2>1, TracksUnfinished DEF Going
    <2>2. CASE \E p, m : /\ r = Refused(p, m) /\ m \in 0..c - used
                         /\ Tracks(SubSeq(sent, 1, used + m), p, handled)
        BY <1>3, <2>2, TracksUnfinished DEF Refused
    <2>3. CASE \E p, m : /\ r = Done(p, m) /\ m \in 0..c - used
                         /\ isFinished(p)
                         /\ Tracks(SubSeq(sent, 1, used + m), NewParser,
                                   Dispatched(handled, p))
        BY <1>3, <2>3 DEF Done, Dispatched, reset
    <2> QED BY <1>5, <2>1, <2>2, <2>3 DEF Ran
<1>7. /\ used' \in Nat /\ arrived' \in Nat
      /\ 2 * used' <= arrived' /\ arrived' <= 2 * Len(sent)
    BY <1>1, <1>2, <1>3, <1>6
<1> QED BY <1>1, <1>3, <1>6, <1>7 DEF ReadInv

\* Every step keeps ReadInv: only a read takes lines.
LEMMA ReadStep == ReadInv /\ [Next]_vars => ReadInv'
<1> SUFFICES ASSUME ReadInv, [Next]_vars PROVE ReadInv'
    OBVIOUS
<1>1. CASE \E k \in 1..2 * MaxLines, c \in BOOLEAN : HandleRead(k, c)
    BY <1>1, ReadKeeps
<1>2. CASE \E l \in Lines : ClientSends(l)
    BY <1>2, SendsKeeps
<1>3. CASE UNCHANGED <<sent, arrived, used, parser, handled>>
    BY <1>3 DEF ReadInv
<1> QED BY <1>1, <1>2, <1>3 DEF Next, vars

\* However the input is cut into reads, HttpServer::onMessage dispatches the
\* requests of the input, in order, each with its own path, version and
\* headers, and the parser is left in a state its loop can leave: for any
\* lines and any number of them.
THEOREM ParsedAlwaysAsSent == Spec => []ParsedAsSent
<1>1. ReadInv => ParsedAsSent
    BY TracksUnfinished DEF ReadInv, ParsedAsSent, Tracks
<1> QED BY <1>1, ReadInit, ReadStep, PTL DEF Spec

-----------------------------------------------------------------------------
(* Reads of one whole request.                                             *)

\* A parser that has read the request line of path u, and some headers.
Reading(p, u) ==
    \E v, hs : p = [state |-> "ParserHeaders",
                   request |-> [path |-> u, version |-> v, headers |-> hs]]

\* The turn of the loop on a request line.
LEMMA RequestTurn ==
    ASSUME NEW l, l.kind = "request",
           NEW b, b = ParserTurn(Going(NewParser, 0), l)
    PROVE  \E p : Reading(p, l.path) /\ b = Going(p, 1)
<1> DEFINE w == [k \in Keys |-> NoHeader]
           q == parserRequestLine(NewParser, l)
           y == [NewParser EXCEPT !.state = "ParserHeaders"]
           z == [y EXCEPT !.request.path = l.path]
<1>1. b = Going(q, 1)
    <2>1. b = [Going(NewParser, 0) EXCEPT !.p = q, !.used = 1]
        BY DEF ParserTurn, Going, NewParser
    <2> HIDE DEF q
    <2> QED BY <2>1 DEF Going
<1>2. NewParser = [state |-> "ParserLine",
                   request |-> [path |-> "/", version |-> 11, headers |-> w]]
    BY DEF NewParser, NewRequest
<1>3. q = [z EXCEPT !.request.version = l.version]
    BY Zenon DEF parserRequestLine
<1> HIDE DEF w, q
<1>4. y = [state |-> "ParserHeaders",
           request |-> [path |-> "/", version |-> 11, headers |-> w]]
    BY <1>2
<1> HIDE DEF y
<1>5. z = [state |-> "ParserHeaders",
           request |-> [path |-> l.path, version |-> 11, headers |-> w]]
    BY <1>4
<1> HIDE DEF z
<1>6. q = [state |-> "ParserHeaders",
           request |-> [path |-> l.path, version |-> l.version,
                        headers |-> w]]
    BY <1>3, <1>5
<1>7. Reading(q, l.path)
    BY <1>6 DEF Reading
<1> QED BY <1>1, <1>7

\* The turn on a line behind the request line.
LEMMA HeaderTurn ==
    ASSUME NEW p, NEW u, Reading(p, u), NEW i \in Nat, NEW l,
           NEW b, b = ParserTurn(Going(p, i), l)
    PROVE  /\ l.kind = "header" =>
                  \E q : Reading(q, u) /\ b = Going(q, i + 1)
           /\ l.kind # "header" =>
                  \E q : /\ b = Done(q, i + 1) /\ isFinished(q)
                         /\ q.request.path = u
<1> DEFINE q == parserHeaders(p, l)
<1>1. PICK v, hs : p = [state |-> "ParserHeaders",
                       request |-> [path |-> u, version |-> v, headers |-> hs]]
    BY DEF Reading
<1>2. b = IF isFinished(q) THEN Done(q, i + 1) ELSE Going(q, i + 1)
    <2>1. b = [Going(p, i) EXCEPT !.p = q, !.used = i + 1,
                                  !.returned = isFinished(q),
                                  !.ok = isFinished(q)]
        BY <1>1 DEF ParserTurn, Going
    <2>2. isFinished(q) \in BOOLEAN
        BY DEF isFinished
    <2> HIDE DEF q
    <2> QED BY <2>1, <2>2 DEF Going, Done
<1>3. CASE l.kind = "header"
    <2>1. Reading(q, u) /\ isFinished(q) = FALSE
        <3>1. CASE l.key \in Keys
            <4>1. q = [state |-> "ParserHeaders",
                       request |-> [path |-> u, version |-> v,
                           headers |-> [hs EXCEPT ![l.key] = l.value]]]
                BY <1>1, <1>3, <3>1 DEF parserHeaders
            <4> HIDE DEF q
            <4> QED BY <4>1 DEF Reading, isFinished
        <3>2. CASE l.key \notin Keys
            <4>1. q = p
                BY <1>3, <3>2 DEF parserHeaders
            <4> HIDE DEF q
            <4> QED BY <1>1, <4>1 DEF Reading, isFinished
        <3> QED BY <3>1, <3>2
    <2> HIDE DEF q
    <2> QED BY <1>2, <1>3, <2>1
<1>4. CASE l.kind # "header"
    <2>1. q = [state |-> "ParserFinished",
               request |-> [path |-> u, version |-> v, headers |-> hs]]
        BY <1>1, <1>4 DEF parserHeaders
    <2>2. isFinished(q) = TRUE /\ q.request.path = u
        BY <2>1 DEF isFinished
    <2> HIDE DEF q
    <2> QED BY <1>2, <1>4, <2>2
<1> QED BY <1>3, <1>4

\* parserHttpRequest on a request line, header lines and one that is none.
LEMMA RequestRan ==
    ASSUME NEW ls, Len(ls) \in Nat, Len(ls) >= 2,
           ls[1].kind = "request", ls[Len(ls)].kind # "header",
           \A i \in 2..Len(ls) - 1 : ls[i].kind = "header",
           NEW r, r = parserHttpRequest(NewParser, ls)
    PROVE  \E q : /\ r = Done(q, Len(ls)) /\ isFinished(q)
                  /\ q.request.path = ls[1].path
<1> DEFINE n == Len(ls)
           u == ls[1].path
           f == ParserTurns(NewParser, ls)
           T == {i \in 0..n - 1 :
                     i # 0 => \E p : Reading(p, u) /\ f[i] = Going(p, i)}
<1>1. n >= 2 /\ ls[1].kind = "request" /\ ls[n].kind # "header"
    OBVIOUS
<1>2. /\ f[0] = Going(NewParser, 0)
      /\ \A i \in 1..n : f[i] = ParserTurn(f[i - 1], ls[i])
    <2>1. f = ParserTurns(NewParser, ls)
        OBVIOUS
    <2> HIDE DEF f
    <2>2. /\ f[0] = [p |-> NewParser, used |-> 0, returned |-> FALSE,
                     ok |-> FALSE]
          /\ \A i \in 1..Len(ls) : f[i] = ParserTurn(f[i - 1], ls[i])
        BY <2>1, TurnsDef
    <2> QED BY <2>2 DEF Going
<1>3. r = f[n]
    BY DEF parserHttpRequest
<1> HIDE DEF f, u
<1>4. ASSUME NEW m \in 1..n - 1, m - 1 \in T PROVE m \in T
    <2>1. m \in 1..n /\ m \in 0..n - 1 /\ m - 1 \in Nat /\ m - 1 + 1 = m
        OBVIOUS
    <2>2. f[m] = ParserTurn(f[m - 1], ls[m])
        BY <1>2, <2>1
    <2>3. CASE m = 1
        <3>1. f[1] = ParserTurn(Going(NewParser, 0), ls[1])
            BY <1>2, <2>2, <2>3
        <3>2. \E p : Reading(p, ls[1].path) /\ f[1] = Going(p, 1)
            BY <1>1, <3>1, RequestTurn
        <3> QED BY <2>1, <2>3, <3>2 DEF u
    <2>4. CASE m # 1
        <3>1. m - 1 # 0 /\ ls[m].kind = "header"
            BY <2>4
        <3>2. PICK p : Reading(p, u) /\ f[m - 1] = Going(p, m - 1)
            BY <1>4, <3>1
        <3>3. f[m] = ParserTurn(Going(p, m - 1), ls[m])
            BY <2>2, <3>2
        <3>4. \E q : Reading(q, u) /\ f[m] = Going(q, m - 1 + 1)
            <4> DEFINE w == m - 1
            <4>1. w \in Nat /\ f[m] = ParserTurn(Going(p, w), ls[m])
                BY <2>1, <3>3
            <4> HIDE DEF w
            <4>2. \E q : Reading(q, u) /\ f[m] = Going(q, w + 1)
                BY <3>1, <3>2, <4>1, HeaderTurn
            <4> QED BY <4>2 DEF w
        <3> QED BY <2>1, <3>4
    <2> QED BY <2>3, <2>4
<1>5. n - 1 \in T
    <2> DEFINE k == n - 1
    <2>1. k \in Nat /\ 0 \in T /\ k \in 0..k
        BY <1>1
    <2>2. \A m \in 1..k : m - 1 \in T => m \in T
        BY <1>4
    <2> HIDE DEF k, T
    <2>3. \A m \in 0..k : m \in T
        BY <2>1, <2>2, UpTo
    <2>4. k \in T
        BY <2>1, <2>3
    <2> QED BY <2>4 DEF k
<1>6. PICK p : Reading(p, u) /\ f[n - 1] = Going(p, n - 1)
    BY <1>1, <1>5
<1>7. \E q : /\ f[n] = Done(q, n - 1 + 1) /\ isFinished(q)
             /\ q.request.path = u
    <2> DEFINE w == n - 1
               l == ls[n]
    <2>1. w \in Nat /\ n \in 1..n
        BY <1>1
    <2>2. f[n] = ParserTurn(Going(p, w), l) /\ l.kind # "header"
        BY <1>1, <1>2, <1>6, <2>1
    <2>3. Reading(p, u)
        BY <1>6
    <2> HIDE DEF w, n, l
    <2>4. \E q : /\ f[n] = Done(q, w + 1) /\ isFinished(q)
                 /\ q.request.path = u
        BY <2>1, <2>2, <2>3, HeaderTurn
    <2> QED BY <2>4 DEF w
<1>8. n - 1 + 1 = n
    BY <1>1
<1> QED BY <1>1, <1>3, <1>7, <1>8 DEF u

\* parserHttpRequest on the lines of one request takes them all.
LEMMA WholeRan ==
    ASSUME NEW ls, Len(ls) \in Nat, Len(RequestsIn(ls)) = 1,
           \A i \in 2..Len(ls) - 1 : ls[i].kind = "header",
           NEW r, r = parserHttpRequest(NewParser, ls)
    PROVE  /\ Len(ls) >= 1 /\ ls[1].kind = "request"
           /\ \E q : /\ r = Done(q, Len(ls)) /\ isFinished(q)
                     /\ q.request.path = ls[1].path
<1> DEFINE n == Len(ls)
<1>1. Closed(ls, 1)
    <2>1. 1 \in 1..n + 1
        OBVIOUS
    <2>2. RequestsIn(ls) =
              IF Closed(ls, 1)
              THEN <<RequestAt(ls, 1, End(ls, 1))>>
                       \o RequestsFrom(ls)[End(ls, 1) + 1]
              ELSE <<>>
        BY <2>1, FromDef DEF RequestsIn
    <2>3. Len(<<>>) = 0
        OBVIOUS
    <2> QED BY <2>2, <2>3
<1>2. n >= 2 /\ ls[1].kind = "request" /\ ls[n].kind # "header"
    <2>1. n >= 1 /\ ls[1].kind = "request" /\ Ends(ls, 1) # {}
        BY <1>1 DEF Closed
    <2>2. End(ls, 1) \in 1 + 1..n /\ ls[End(ls, 1)].kind # "header"
        BY <2>1, EndIsFirst
    <2>3. End(ls, 1) \in 2..n - 1 \/ End(ls, 1) = n
        BY <2>2
    <2> QED BY <2>1, <2>2, <2>3
<1>3. \E q : /\ r = Done(q, Len(ls)) /\ isFinished(q)
             /\ q.request.path = ls[1].path
    BY <1>2, RequestRan
<1> QED BY <1>2, <1>3

\* What the dispatcher holds, whichever threads register and delete.
DispatchTypes ==
    /\ servlets \in [Paths -> Servlets \cup {NotFound}]
    /\ globs \in Seq(Entries)
    /\ reg \in [Registrars -> SUBSET Entries]

\* delGlobServlet leaves entries.
LEMMA StillEntries ==
    ASSUME globs \in Seq(Entries), NEW u, NEW n, n = withoutGlob(u)
    PROVE  n \in Seq(Entries)
<1> DEFINE I == {i \in 1..Len(globs) : globs[i][1] = u}
<1>1. CASE I = {}
    BY <1>1 DEF withoutGlob, SelectInSeq
<1>2. CASE I # {}
    <2> DEFINE k == Min(I)
    <2>1. I \in SUBSET Nat
        OBVIOUS
    <2>2. k \in I
        BY <1>2, <2>1, MinIsFirst
    <2>3. k \in 1..Len(globs) /\ k # 0
        BY <2>2
    <2>4. n = RemoveAt(globs, k)
        BY <1>2, <2>3 DEF withoutGlob, SelectInSeq
    <2> HIDE DEF k
    <2> QED BY <2>3, <2>4, Removal
<1> QED BY <1>1, <1>2

\* Every call of a thread that registers keeps the types.
LEMMA DispatchTyped ==
    ASSUME DispatchTypes, DispatchNext PROVE DispatchTypes'
<1>0. /\ servlets \in [Paths -> Servlets \cup {NotFound}]
      /\ globs \in Seq(Entries)
      /\ reg \in [Registrars -> SUBSET Entries]
    BY DEF DispatchTypes
<1>1. PICK t \in Registrars :
          \/ PushGlobServlet(t)
          \/ \E u \in Paths : DelServlet(t, u)
          \/ \E u \in Paths, s \in Servlets : AddServlet(t, u, s)
          \/ \E u \in Patterns : DelGlobServlet(t, u)
          \/ \E u \in Patterns, s \in Servlets : AddGlobServlet(t, u, s)
    BY DEF DispatchNext
<1>2. CASE PushGlobServlet(t)
    <2>1. PICK g \in reg[t] : globs' = Append(globs, g)
        BY <1>2 DEF PushGlobServlet
    <2>2. g \in Entries
        BY <1>0, <2>1
    <2>3. globs' \in Seq(Entries)
        BY <1>0, <2>1, <2>2, AppendProperties
    <2>4. reg' \in [Registrars -> SUBSET Entries] /\ servlets' = servlets
        BY <1>0, <1>2 DEF PushGlobServlet
    <2> QED BY <1>0, <2>3, <2>4 DEF DispatchTypes
<1>3. CASE \/ \E u \in Paths : DelServlet(t, u)
           \/ \E u \in Paths, s \in Servlets : AddServlet(t, u, s)
    BY <1>0, <1>3 DEF DelServlet, AddServlet, DispatchTypes
<1>4. CASE \E u \in Patterns : DelGlobServlet(t, u)
    <2>1. PICK u \in Patterns : DelGlobServlet(t, u)
        BY <1>4
    <2>2. globs' = withoutGlob(u) /\ servlets' = servlets /\ reg' = reg
        BY <2>1 DEF DelGlobServlet
    <2>3. globs' \in Seq(Entries)
        BY <1>0, <2>2, StillEntries
    <2> QED BY <1>0, <2>2, <2>3 DEF DispatchTypes
<1>5. CASE \E u \in Patterns, s \in Servlets : AddGlobServlet(t, u, s)
    <2>1. PICK u \in Patterns, s \in Servlets : AddGlobServlet(t, u, s)
        BY <1>5
    <2>2. /\ globs' = withoutGlob(u) /\ servlets' = servlets
          /\ reg' = [reg EXCEPT ![t] = {<<u, s>>}]
        BY <2>1 DEF AddGlobServlet
    <2>3. globs' \in Seq(Entries)
        BY <1>0, <2>2, StillEntries
    <2>4. {<<u, s>>} \in SUBSET Entries
        BY DEF Entries
    <2>5. reg' \in [Registrars -> SUBSET Entries]
        BY <1>0, <2>2, <2>4
    <2> QED BY <1>0, <2>2, <2>3, <2>5 DEF DispatchTypes
<1> QED BY <1>1, <1>2, <1>3, <1>4, <1>5

\* A lookup finds a servlet, or the default one.
LEMMA Matched ==
    ASSUME DispatchTypes, NEW path \in Paths
    PROVE  getMatchedServlet(path) \in Servlets \cup {NotFound}
<1> DEFINE I == {i \in DOMAIN globs : <<globs[i][1], path>> \in Matching}
<1>1. servlets[path] \in Servlets \cup {NotFound}
    BY DEF DispatchTypes
<1>2. ASSUME I # {} PROVE globs[Min(I)][2] \in Servlets
    <2>1. globs \in Seq(Entries) /\ I \in SUBSET Nat
        BY DEF DispatchTypes
    <2>2. Min(I) \in I
        BY <1>2, <2>1, MinIsFirst
    <2>3. Min(I) \in DOMAIN globs
        BY <2>2
    <2>4. globs[Min(I)] \in Entries
        <3> HIDE DEF I
        <3> QED BY <2>1, <2>3
    <2> HIDE DEF I
    <2> QED BY <2>4 DEF Entries
<1>3. getMatchedServlet(path) =
          IF servlets[path] # NotFound THEN servlets[path]
          ELSE IF I # {} THEN globs[Min(I)][2] ELSE NotFound
    BY DEF getMatchedServlet
<1> HIDE DEF I
<1> QED BY <1>1, <1>2, <1>3

\* While every read was one whole request: nothing is left in the buffer, and
\* nothing was answered with a 400.
WholeInv ==
    whole => /\ arrived = 2 * used
             /\ \A i \in DOMAIN out : out[i].servlet # "400"

\* A read of one whole request, and the answer to it.
LEMMA WholeKeeps ==
    ASSUME ReadInv, AnswerInv, DispatchTypes, WholeInv,
           NEW k \in 1..2 * MaxLines, NEW b \in BOOLEAN, HandleRead(k, b),
           whole'
    PROVE  /\ arrived' = 2 * used'
           /\ \A i \in DOMAIN out' : out'[i].servlet # "400"
<1> DEFINE c == (arrived + k) \div 2
           ls == SubSeq(sent, used + 1, c)
           r == parserHttpRequest(parser, ls)
<1>1. /\ sent \in Seq(Lines) /\ used \in Nat /\ arrived \in Nat
      /\ Len(sent) \in Nat /\ k \in Nat /\ arrived + k <= 2 * Len(sent)
    BY DEF ReadInv, HandleRead
<1>2. whole /\ OneRequest(k)
    BY DEF HandleRead
<1>3. arrived = 2 * used /\ parser = NewParser /\ k % 2 = 0
    BY <1>2 DEF OneRequest
<1>4. /\ c = used + k \div 2 /\ k = 2 * (k \div 2) /\ c \in Nat
      /\ used <= c /\ c <= Len(sent)
    <2>1. k = 2 * (k \div 2) /\ k \div 2 \in Nat
        BY <1>1, <1>3
    <2>2. arrived + k = 2 * (used + k \div 2)
        BY <1>1, <1>3, <2>1
    <2> QED BY <1>1, <2>1, <2>2
<1>5. /\ Len(RequestsIn(ls)) = 1
      /\ \A i \in 2..Len(ls) - 1 : ls[i].kind = "header"
    BY <1>2, <1>4 DEF OneRequest
<1>6. /\ arrived' = arrived + k /\ used' = used + r.used
      /\ onMessage(r, b)
    BY DEF HandleRead
<1> HIDE DEF c
<1>7. Len(ls) = c - used /\ \A i \in 1..c - used : ls[i] = sent[used + i]
    BY <1>1, <1>4, Piece
<1>8. r = parserHttpRequest(NewParser, ls)
    BY <1>3
<1> HIDE DEF ls, r
<1>9. /\ Len(ls) >= 1 /\ ls[1].kind = "request"
      /\ \E q : /\ r = Done(q, Len(ls)) /\ isFinished(q)
                /\ q.request.path = ls[1].path
    <2>1. Len(ls) \in Nat
        BY <1>4, <1>7
    <2> QED BY <1>5, <1>8, <2>1, WholeRan
<1>10. PICK q : /\ r = Done(q, Len(ls)) /\ isFinished(q)
                /\ q.request.path = ls[1].path
    BY <1>9
<1>11. r.ok /\ r.p = q /\ r.used = c - used
    BY <1>7, <1>10 DEF Done
<1>12. q.request.path \in Paths
    <2>1. 1 \in 1..c - used
        BY <1>4, <1>7, <1>9
    <2>2. ls[1] = sent[used + 1] /\ used + 1 \in 1..Len(sent)
        BY <1>1, <1>4, <1>7, <2>1
    <2>3. ls[1] \in Lines
        BY <1>1, <2>2
    <2> QED BY <1>9, <1>10, <2>3, LinesAssumption
<1> DEFINE servlet == getMatchedServlet(q.request.path)
           x == [request |-> q.request, servlet |-> servlet,
                 close |-> mustClose(q.request)
                           \/ (b /\ servlet # NotFound)]
<1>13. servlet # "400"
    BY <1>12, Matched, AnswersAssumption DEF NotFound
<1> HIDE DEF servlet
<1>14. out' = IF state = "Connected" THEN Append(out, x) ELSE out
    BY <1>6, <1>10, <1>11 DEF onMessage, answer, servlet
<1>15. x.servlet # "400"
    BY <1>13
<1> HIDE DEF x
<1>16. \A i \in DOMAIN out : out[i].servlet # "400"
    BY <1>2 DEF WholeInv
<1>17. \A i \in DOMAIN out' : out'[i].servlet # "400"
    <2>1. CASE state = "Connected"
        <3>1. PICK S : out \in Seq(S)
            BY DEF AnswerInv, InStep
        <3>2. out' = Append(out, x)
            BY <1>14, <2>1
        <3>3. /\ Len(out) \in Nat /\ DOMAIN out = 1..Len(out)
              /\ DOMAIN out' = 1..Len(out) + 1
              /\ \A i \in 1..Len(out) : out'[i] = out[i]
              /\ out'[Len(out) + 1] = x
            BY <3>1, <3>2, OneMore
        <3> QED BY <1>15, <1>16, <3>3
    <2>2. CASE state # "Connected"
        BY <1>14, <1>16, <2>2
    <2> QED BY <2>1, <2>2
<1>18. arrived' = 2 * used'
    BY <1>1, <1>3, <1>4, <1>6, <1>11
<1> QED BY <1>17, <1>18

ServerInv == ReadInv /\ AnswerInv /\ DispatchTypes /\ WholeInv

\* The answers of HttpServer::onMessage and onRequest are to the requests
\* dispatched, in their order; and as long as every read holds one request
\* and nothing else, each is answered at once, and none with a 400, whatever
\* other threads register with the dispatcher meanwhile.
THEOREM AlwaysAnsweredInOrder == Spec => []AnsweredInOrder
<1>1. Init => ServerInv
    <2> SUFFICES ASSUME Init PROVE ServerInv
        OBVIOUS
    <2>1. AnswerInv /\ WholeInv
        BY DEF Init, AnswerInv, InStep, Matches, WholeInv
    <2>2. DispatchTypes
        BY DEF Init, DispatchInit, DispatchTypes
    <2> QED BY <2>1, <2>2, ReadInit DEF ServerInv
<1>2. ServerInv /\ [Next]_vars => ServerInv'
    <2> SUFFICES ASSUME ServerInv, [Next]_vars PROVE ServerInv'
        OBVIOUS
    <2>1. ReadInv /\ AnswerInv /\ DispatchTypes /\ WholeInv
        BY DEF ServerInv
    <2>2. ReadInv'
        BY <2>1, ReadStep
    <2>3. DispatchTypes'
        <3>1. CASE DispatchNext
            BY <2>1, <3>1, DispatchTyped
        <3>2. CASE UNCHANGED dispatchVars
            BY <2>1, <3>2 DEF DispatchTypes, dispatchVars
        <3> QED BY <3>1, <3>2, DispatchSteps
    <2>4. CASE \E k \in 1..2 * MaxLines, c \in BOOLEAN : HandleRead(k, c)
        <3>1. PICK k \in 1..2 * MaxLines, c \in BOOLEAN : HandleRead(k, c)
            BY <2>4
        <3>2. AnswerInv'
            BY <2>1, <3>1, OnMessageKeeps DEF HandleRead
        <3>3. WholeInv'
            BY <2>1, <3>1, WholeKeeps DEF WholeInv
        <3> QED BY <2>2, <2>3, <3>2, <3>3 DEF ServerInv
    <2>5. CASE UNCHANGED <<arrived, used, out, state, handled, whole>>
        BY <2>1, <2>2, <2>3, <2>5 DEF ServerInv, AnswerInv, WholeInv
    <2> QED BY <2>4, <2>5 DEF Next, ClientSends, vars
<1>3. ServerInv => AnsweredInOrder
    BY DEF ServerInv, AnswerInv, InStep, Matches, WholeInv, AnswersMatch,
           AnsweredInOrder
<1> QED BY <1>1, <1>2, <1>3, PTL DEF Spec

-----------------------------------------------------------------------------
(* The client.                                                             *)

\* Before its first connection, a client has sent nothing; when it asks
\* whether to connect again, it has been told to disconnect.
Before == {"none", "queued", "connecting", "failed"}
Down == {"parse", "parsing", "post", "disconnect", "unlock", "remove", "over"}

Headers == {"-"} \cup {dump(HttpConstructRequest(c)) :
                           c \in Connections}

OnceInv ==
    /\ net \in [state : Before \cup {"up", "closed"} \cup Down, no : {0, 1},
                response : Responses, sent : Int,
                connection : Headers]
    /\ tcp \in [m_connect : BOOLEAN, conn : Nat]
    /\ h \in [requests : Seq(Nat), cuts : Seq(Int)]
    /\ caller = "start" => net.state = "none"
    /\ net.state \in Before => net.no = 0
    /\ net.no = 0 => h.requests = <<>>
    /\ net.state \in Down => ~tcp.m_connect
    /\ Len(h.requests) <= 1

\* The invariant holds before the call.
LEMMA OnceInit == ClientInit => OnceInv
    BY DEF ClientInit, OnceInv, Before, Down, Headers

\* The steps of the caller.
LEMMA CallerKeeps == ASSUME OnceInv, Caller PROVE OnceInv'
<1>1. CASE \E c \in Connections : DoRequest(c)
    <2>1. PICK c \in Connections : DoRequest(c)
        BY <1>1
    <2> DEFINE d == dump(HttpConstructRequest(c))
    <2>2. d \in Headers
        BY DEF Headers
    <2>3. /\ caller = "start" /\ caller' = "wait" /\ h' = h
          /\ tcp' = [tcp EXCEPT !.m_connect = TRUE]
          /\ net' = [net EXCEPT !.state = "queued", !.connection = d]
        BY <2>1 DEF DoRequest
    <2> HIDE DEF d
    <2> QED BY <2>2, <2>3 DEF OnceInv, Before, Down
<1>2. CASE SemWait \/ GetResponse \/ Destroy
    BY <1>2 DEF SemWait, GetResponse, Destroy, OnceInv
<1> QED BY <1>1, <1>2 DEF Caller

\* The steps up to the connection.
LEMMA ConnectKeeps ==
    ASSUME OnceInv,
           StartInLoop \/ ConnectFails \/ ConnectionUp
    PROVE  OnceInv'
<1>1. CASE StartInLoop
    BY <1>1 DEF StartInLoop, OnceInv, Before, Down
<1>2. CASE ConnectFails
    BY <1>2 DEF ConnectFails, OnceInv, Before, Down
<1>3. CASE ConnectionUp
    <2>1. /\ net.state = "connecting" /\ net.no = 0 /\ caller' = caller
          /\ caller # "start" /\ h.requests = <<>>
        BY <1>3 DEF ConnectionUp, OnceInv, Before
    <2>2. net' = [net EXCEPT !.state = "up", !.no = 1, !.sent = 0]
        BY <1>3, <2>1 DEF ConnectionUp
    <2>3. tcp' = [tcp EXCEPT !.conn = 1]
        BY <1>3, <2>1 DEF ConnectionUp
    <2>4. h' = h \/ h' = [h EXCEPT !.requests = <<1>>]
        BY <1>3, <2>1 DEF ConnectionUp
    <2>5. <<1>> \in Seq(Nat) /\ Len(<<1>>) = 1
        OBVIOUS
    <2>6. /\ h' \in [requests : Seq(Nat), cuts : Seq(Int)]
          /\ Len(h'.requests) <= 1
        <3> DEFINE q == <<1>>
        <3>1. q \in Seq(Nat) /\ Len(q) = 1
            BY <2>5
        <3>2. h \in [requests : Seq(Nat), cuts : Seq(Int)]
            BY DEF OnceInv
        <3>3. h' = h \/ h' = [h EXCEPT !.requests = q]
            BY <2>4
        <3> HIDE DEF q
        <3>4. CASE h' = [h EXCEPT !.requests = q]
            <4>1. h' \in [requests : Seq(Nat), cuts : Seq(Int)]
                BY <3>1, <3>2, <3>4
            <4>2. h'.requests = q
                BY <3>2, <3>4
            <4>3. Len(h'.requests) = 1
                BY <3>1, <4>2
            <4> QED BY <4>1, <4>3
        <3> QED BY <3>3, <3>4 DEF OnceInv
    <2>7. /\ net' \in [state : Before \cup {"up", "closed"} \cup Down,
                       no : {0, 1}, response : Responses, sent : Int,
                       connection : Headers]
          /\ net'.state = "up" /\ net'.no = 1
        <3>1. "up" \in Before \cup {"up", "closed"} \cup Down /\ 0 \in Int
            OBVIOUS
        <3> QED BY <2>2, <3>1 DEF OnceInv
    <2>8. tcp' \in [m_connect : BOOLEAN, conn : Nat]
        BY <2>3 DEF OnceInv
    <2> QED BY <2>1, <2>6, <2>7, <2>8 DEF OnceInv, Before, Down
<1> QED BY <1>1, <1>2, <1>3

\* What arrives, and the close.
LEMMA ReceiveKeeps ==
    ASSUME OnceInv, Receives \/ ServerCloses PROVE OnceInv'
<1>1. CASE Receives
    <2>1. PICK k \in 1..Len(Wire[net.response]) : OnMessage(k)
        BY <1>1 DEF Receives
    <2> DEFINE s == net.sent + k
    <2>2. /\ net.state = "up" /\ net' = [net EXCEPT !.sent = s]
          /\ h' = [h EXCEPT !.cuts = Append(@, s)]
          /\ caller' = caller /\ tcp' = tcp
        BY <2>1 DEF OnMessage
    <2>3. s \in Int
        BY DEF OnceInv
    <2> HIDE DEF s
    <2>4. Append(h.cuts, s) \in Seq(Int)
        BY <2>3, AppendProperties DEF OnceInv
    <2> QED BY <2>2, <2>3, <2>4 DEF OnceInv, Before, Down
<1>2. CASE ServerCloses
    BY <1>2 DEF ServerCloses, OnceInv, Before, Down
<1> QED BY <1>1, <1>2

\* The steps of the close, up to the question whether to connect again.
LEMMA DownKeeps ==
    ASSUME OnceInv,
           \/ ConnectionDown \/ Parse \/ ParseChunks \/ ParseReturns \/ Post
           \/ Disconnect \/ Unlock \/ RemoveConnection
    PROVE  OnceInv'
<1>1. CASE ConnectionDown
    BY <1>1 DEF ConnectionDown, downLocked, OnceInv, Before, Down
<1>2. CASE Parse
    BY <1>2 DEF Parse, OnceInv, Before, Down
<1>3. CASE Post
    BY <1>3 DEF Post, OnceInv, Before, Down
<1>4. CASE Disconnect
    BY <1>4 DEF Disconnect, Uses, OnceInv, Before, Down
<1>5. CASE Unlock
    BY <1>5 DEF Unlock, Uses, OnceInv, Before, Down
<1>6. CASE RemoveConnection
    BY <1>6 DEF RemoveConnection, Uses, OnceInv, Before, Down
<1>7. CASE ParseChunks
    BY <1>7 DEF ParseChunks, OnceInv, Before, Down
<1>8. CASE ParseReturns
    BY <1>8 DEF ParseReturns, OnceInv, Before, Down
<1> QED BY <1>1, <1>2, <1>3, <1>4, <1>5, <1>6, <1>7, <1>8

\* DoRequest sends its request on one connection and once, with retry or
\* without, whatever the server answers and whenever it closes: onConnection
\* tells the TcpClient to disconnect before removeConnection asks whether to
\* connect again.
THEOREM RequestAlwaysSentOnce == ClientSpec => []RequestSentOnce
<1>1. OnceInv /\ [ClientNext]_clientVars => OnceInv'
    <2>1. CASE UNCHANGED clientVars
        BY <2>1 DEF clientVars, OnceInv
    <2> QED BY <2>1, CallerKeeps, ConnectKeeps, ReceiveKeeps, DownKeeps
            DEF ClientNext, Loop
<1>2. OnceInv => RequestSentOnce
    BY DEF OnceInv, RequestSentOnce
<1> QED BY <1>1, <1>2, OnceInit, PTL DEF ClientSpec

-----------------------------------------------------------------------------
(* Parts of sequences.                                                     *)

\* The elements of W after the first a, up to c.
Part(W, a, c) == SubSeq(W, a + 1, c)

LEMMA PartOf ==
    ASSUME NEW U, NEW W \in Seq(U), NEW a \in Nat, NEW c \in a..Len(W)
    PROVE  /\ Part(W, a, c) \in Seq(U) /\ Len(Part(W, a, c)) = c - a
           /\ \A i \in 1..c - a : Part(W, a, c)[i] = W[a + i]
<1>1. a + 1 \in Int /\ c \in Int /\ Len(W) \in Nat /\ a <= c /\ c <= Len(W)
    OBVIOUS
<1>2. \A i \in a + 1..c : W[i] \in U
    BY <1>1
<1>3. /\ Part(W, a, c) \in Seq(U)
      /\ Len(Part(W, a, c)) = IF a + 1 <= c THEN c - (a + 1) + 1 ELSE 0
      /\ \A i \in 1..c - (a + 1) + 1 :
             Part(W, a, c)[i] = W[a + 1 + i - 1]
    BY <1>1, <1>2, SubSeqProperties DEF Part
<1>4. \A i \in Int : a + 1 + i - 1 = a + i
    BY <1>1
<1>5. c - (a + 1) + 1 = c - a
    BY <1>1
<1> QED BY <1>1, <1>3, <1>4, <1>5

\* A sequence that has the elements of a part is the part.
LEMMA IsPart ==
    ASSUME NEW U, NEW W \in Seq(U), NEW a \in Nat, NEW c \in a..Len(W),
           NEW V, NEW s \in Seq(V), Len(s) = c - a,
           \A i \in 1..c - a : s[i] = W[a + i]
    PROVE  s = Part(W, a, c)
<1> DEFINE p == Part(W, a, c)
<1>1. p \in Seq(U) /\ Len(p) = c - a /\ \A i \in 1..c - a : p[i] = W[a + i]
    BY PartOf
<1> HIDE DEF p
<1>2. /\ s = [i \in 1..Len(s) |-> s[i]] /\ p = [i \in 1..Len(p) |-> p[i]]
    BY <1>1
<1>3. s = p
    BY <1>1, <1>2
<1> QED BY <1>3 DEF p

\* Two parts side by side.
LEMMA Glued ==
    ASSUME NEW U, NEW W \in Seq(U),
           NEW a \in Nat, NEW b \in Nat, NEW c \in Nat, a <= b, b <= c,
           c <= Len(W)
    PROVE  Part(W, a, b) \o Part(W, b, c) = Part(W, a, c)
<1> DEFINE x == Part(W, a, b)
           y == Part(W, b, c)
<1>1. x \in Seq(U) /\ Len(x) = b - a /\ \A i \in 1..b - a : x[i] = W[a + i]
    <2>1. b \in a..Len(W)
        OBVIOUS
    <2> QED BY <2>1, PartOf
<1>2. y \in Seq(U) /\ Len(y) = c - b /\ \A i \in 1..c - b : y[i] = W[b + i]
    <2>1. c \in b..Len(W)
        OBVIOUS
    <2> QED BY <2>1, PartOf
<1> HIDE DEF x, y
<1>3. /\ x \o y \in Seq(U) /\ Len(x \o y) = (b - a) + (c - b)
      /\ \A i \in 1..(b - a) + (c - b) :
             (x \o y)[i] = IF i <= b - a THEN x[i] ELSE y[i - (b - a)]
    <2>1. /\ x \o y \in Seq(U) /\ Len(x \o y) = Len(x) + Len(y)
          /\ \A i \in 1..Len(x) + Len(y) :
                 (x \o y)[i] = IF i <= Len(x) THEN x[i] ELSE y[i - Len(x)]
        BY <1>1, <1>2, ConcatProperties
    <2> QED BY <1>1, <1>2, <2>1
<1>4. (b - a) + (c - b) = c - a /\ c \in a..Len(W)
    OBVIOUS
<1>5. ASSUME NEW i \in 1..c - a PROVE (x \o y)[i] = W[a + i]
    <2>1. CASE i <= b - a
        <3>1. i \in 1..b - a
            BY <2>1
        <3> QED BY <1>1, <1>3, <1>4, <2>1, <3>1
    <2>2. CASE ~(i <= b - a)
        <3>1. i - (b - a) \in 1..c - b /\ b + (i - (b - a)) = a + i
            BY <2>2
        <3>2. (x \o y)[i] = y[i - (b - a)]
            BY <1>3, <1>4, <2>2
        <3> QED BY <1>2, <3>1, <3>2
    <2> QED BY <2>1, <2>2
<1>6. x \o y = Part(W, a, c)
    BY <1>3, <1>4, <1>5, IsPart
<1> QED BY <1>6 DEF x, y

\* Parts of a part.
LEMMA Dropped ==
    ASSUME NEW U, NEW W \in Seq(U), NEW a \in Nat, NEW c \in a..Len(W),
           NEW k \in 0..c - a, NEW b, b = a + k
    PROVE  /\ Drop(Part(W, a, c), k) = Part(W, b, c)
           /\ SubSeq(Part(W, a, c), 1, k) = Part(W, a, b)
<1> DEFINE s == Part(W, a, c)
<1>1. s \in Seq(U) /\ Len(s) = c - a /\ \A i \in 1..c - a : s[i] = W[a + i]
    BY PartOf
<1>2. /\ c \in Nat /\ a <= c /\ c <= Len(W) /\ k \in Nat /\ k <= c - a
      /\ c - a \in Nat /\ b \in Nat /\ b <= c /\ c - b = (c - a) - k
      /\ b - a = k /\ c \in b..Len(W) /\ b \in a..Len(W)
    OBVIOUS
<1> HIDE DEF s
<1>3. /\ Drop(s, k) \in Seq(U) /\ Len(Drop(s, k)) = (c - a) - k
      /\ \A i \in 1..(c - a) - k : Drop(s, k)[i] = s[k + i]
    <2>1. Len(s) \in k..Len(s)
        BY <1>1, <1>2
    <2>2. Drop(s, k) = Part(s, k, Len(s))
        BY DEF Drop, Part
    <2>3. /\ Part(s, k, Len(s)) \in Seq(U)
          /\ Len(Part(s, k, Len(s))) = Len(s) - k
          /\ \A i \in 1..Len(s) - k : Part(s, k, Len(s))[i] = s[k + i]
        <3> DEFINE l == Len(s)
        <3>1. s \in Seq(U) /\ k \in Nat /\ l \in k..Len(s)
            BY <1>1, <1>2, <2>1
        <3> HIDE DEF l
        <3>2. /\ Part(s, k, l) \in Seq(U) /\ Len(Part(s, k, l)) = l - k
              /\ \A i \in 1..l - k : Part(s, k, l)[i] = s[k + i]
            BY ONLY <3>1, PartOf
        <3> QED BY <3>2 DEF l
    <2> QED BY <1>1, <2>2, <2>3
<1>4. /\ SubSeq(s, 1, k) \in Seq(U) /\ Len(SubSeq(s, 1, k)) = k
      /\ \A i \in 1..k : SubSeq(s, 1, k)[i] = s[i]
    <2>1. k \in 0..Len(s) /\ k - 0 = k /\ 0 \in Nat
        BY <1>1, <1>2
    <2>2. SubSeq(s, 1, k) = Part(s, 0, k)
        BY DEF Part
    <2>3. /\ Part(s, 0, k) \in Seq(U) /\ Len(Part(s, 0, k)) = k - 0
          /\ \A i \in 1..k - 0 : Part(s, 0, k)[i] = s[0 + i]
        BY <1>1, <2>1, PartOf
    <2>4. \A i \in 1..k : 0 + i = i
        OBVIOUS
    <2> QED BY <2>1, <2>2, <2>3, <2>4
<1>5. \A i \in 1..c - b : Drop(s, k)[i] = W[b + i]
    <2>1. \A i \in 1..c - b : k + i \in 1..c - a /\ a + (k + i) = b + i
        BY <1>2
    <2> QED BY <1>1, <1>2, <1>3, <2>1
<1>6. \A i \in 1..b - a : SubSeq(s, 1, k)[i] = W[a + i]
    <2>1. \A i \in 1..b - a : i \in 1..c - a /\ i \in 1..k
        BY <1>2
    <2> QED BY <1>1, <1>4, <2>1
<1>7. Drop(s, k) = Part(W, b, c)
    BY <1>2, <1>3, <1>5, IsPart
<1>8. SubSeq(s, 1, k) = Part(W, a, b)
    <2> DEFINE t == SubSeq(s, 1, k)
    <2>1. t \in Seq(U) /\ Len(t) = b - a /\ \A i \in 1..b - a : t[i] = W[a + i]
        BY <1>2, <1>4, <1>6
    <2> HIDE DEF t
    <2>2. t = Part(W, a, b)
        BY <1>2, <2>1, IsPart
    <2> QED BY <2>2 DEF t
<1> QED BY <1>7, <1>8 DEF s

\* FlattenSeq puts its sequences one behind the other.
LEMMA FlattenDef ==
    ASSUME NEW F, NEW n \in Nat \ {0}, Len(F) = n
    PROVE  \E g : /\ g[1] = F[1] /\ FlattenSeq(F) = g[n]
                  /\ \A i \in 2..n : g[i] = g[i - 1] \o F[i]
<1> DEFINE Value(g, i) == IF i = 1 THEN F[i] ELSE g[i - 1] \o F[i]
           Fit(g, k) == g = [i \in 1..k |-> Value(g, i)]
           S == {k \in 0..n : \E g : Fit(g, k)}
<1>1. 0 \in S
    <2>1. Fit([i \in 1..0 |-> F[1]], 0)
        OBVIOUS
    <2>2. 0 \in 0..n
        OBVIOUS
    <2> HIDE DEF Fit
    <2> QED BY <2>1, <2>2
<1>2. ASSUME NEW m \in 1..n, m - 1 \in S PROVE m \in S
    <2>1. PICK g : Fit(g, m - 1)
        BY <1>2
    <2> DEFINE w == [i \in 1..m |-> IF i = m THEN Value(g, m) ELSE g[i]]
    <2>2. ASSUME NEW i \in 1..m PROVE w[i] = Value(w, i)
        <3>1. i # 1 => w[i - 1] = g[i - 1]
            <4> HIDE DEF Value
            <4> QED OBVIOUS
        <3>2. Value(w, i) = Value(g, i)
            <4> HIDE DEF w
            <4> QED BY <3>1
        <3>3. i # m => i \in 1..m - 1
            OBVIOUS
        <3>4. i # m => g[i] = Value(g, i)
            <4> HIDE DEF Value
            <4> QED BY <2>1, <3>3
        <3>5. w[i] = Value(g, i)
            <4> HIDE DEF Value
            <4> QED BY <3>4
        <3> HIDE DEF w, Value
        <3> QED BY <3>2, <3>5
    <2>3. Fit(w, m)
        <3>1. w = [i \in 1..m |-> w[i]]
            OBVIOUS
        <3> HIDE DEF w, Value
        <3> QED BY <2>2, <3>1
    <2>4. \E v : Fit(v, m)
        <3> HIDE DEF w, Fit
        <3> QED BY <2>3, Zenon
    <2>5. m \in 0..n
        OBVIOUS
    <2> HIDE DEF Fit
    <2> QED BY <2>4, <2>5
<1>3. n \in S
    <2> HIDE DEF S
    <2>1. n \in Nat /\ n \in 0..n
        OBVIOUS
    <2>2. \A m \in 1..n : m - 1 \in S => m \in S
        BY <1>2
    <2> QED BY <1>1, <2>1, <2>2, UpTo
<1>4. \E g : Fit(g, n)
    <2> HIDE DEF Fit
    <2> QED BY <1>3
<1> DEFINE f == CHOOSE g : Fit(g, n)
<1>5. Fit(f, n)
    <2> HIDE DEF Fit
    <2> QED BY <1>4, Zenon
<1>6. FlattenSeq(F) = f[n]
    <2>1. Len(F) # 0
        OBVIOUS
    <2> QED BY <2>1, Zenon DEF FlattenSeq
<1> HIDE DEF f
<1>7. \A i \in 1..n : f[i] = Value(f, i)
    <2> HIDE DEF Value
    <2> QED BY <1>5
<1>8. f[1] = F[1]
    <2>1. 1 \in 1..n
        OBVIOUS
    <2> QED BY <1>7, <2>1
<1>9. ASSUME NEW i \in 2..n PROVE f[i] = f[i - 1] \o F[i]
    <2>1. i \in 1..n /\ i # 1
        OBVIOUS
    <2> QED BY <1>7, <2>1
<1> QED BY <1>6, <1>8, <1>9

\* The places where sequences of the lengths L begin, one behind the other.
Places(off, L, n) ==
    /\ off \in [0..n -> Nat] /\ off[0] = 0
    /\ \A i \in 1..n : off[i] = off[i - 1] + L[i]

LEMMA PlacesExist ==
    ASSUME NEW n \in Nat, NEW L, \A i \in 1..n : L[i] \in Nat
    PROVE  \E off : Places(off, L, n)
<1> DEFINE S == {k \in 0..n : \E off : Places(off, L, k)}
<1>1. 0 \in S
    <2>1. Places([i \in 0..0 |-> 0], L, 0)
        BY DEF Places
    <2> QED BY <2>1
<1>2. ASSUME NEW m \in 1..n, m - 1 \in S PROVE m \in S
    <2>1. PICK g : Places(g, L, m - 1)
        BY <1>2
    <2> DEFINE w == [i \in 0..m |-> IF i = m THEN g[m - 1] + L[m] ELSE g[i]]
    <2>2. Places(w, L, m)
        BY <2>1 DEF Places
    <2> HIDE DEF w
    <2> QED BY <2>2
<1>3. n \in S
    <2> HIDE DEF S
    <2>1. n \in 0..n
        OBVIOUS
    <2>2. \A m \in 1..n : m - 1 \in S => m \in S
        BY <1>2
    <2> QED BY <1>1, <2>1, <2>2, UpTo
<1> QED BY <1>3

LEMMA FlattenAt ==
    ASSUME NEW U, NEW F \in Seq(Seq(U)), NEW n, n = Len(F), NEW off, NEW L,
           Places(off, L, n), \A i \in 1..n : L[i] = Len(F[i]),
           NEW f, f = FlattenSeq(F)
    PROVE  /\ f \in Seq(U) /\ Len(f) = off[n]
           /\ \A i \in 1..n : \A j \in 1..L[i] : f[off[i - 1] + j] = F[i][j]
           /\ \A i \in 0..n : off[i] <= off[n]
<1>1. CASE n = 0
    <2>1. f = F /\ F = <<>>
        <3>1. Len(F) = 0
            BY <1>1
        <3>2. F = <<>>
            BY <3>1
        <3> QED BY <3>1, <3>2, Zenon DEF FlattenSeq
    <2> QED BY <1>1, <2>1 DEF Places
<1>2. CASE n # 0
    <2>1. n \in Nat \ {0}
        BY <1>2
    <2>2. PICK g : /\ g[1] = F[1] /\ FlattenSeq(F) = g[n]
                   /\ \A i \in 2..n : g[i] = g[i - 1] \o F[i]
        BY <2>1, FlattenDef
    <2>3. \A i \in 1..n : F[i] \in Seq(U) /\ Len(F[i]) \in Nat
        OBVIOUS
    <2>8. \A i \in 1..n : /\ off[i] \in Nat /\ off[i - 1] \in Nat
                           /\ off[i] = off[i - 1] + L[i] /\ L[i] = Len(F[i])
        <3>1. \A i \in 1..n : i \in 0..n /\ i - 1 \in 0..n
            BY <2>1
        <3>2. \A i \in 0..n : off[i] \in Nat
            BY DEF Places
        <3>3. \A i \in 1..n : off[i] = off[i - 1] + L[i] /\ L[i] = Len(F[i])
            BY DEF Places
        <3> QED BY <3>1, <3>2, <3>3
    <2> DEFINE Holds(k) ==
            /\ g[k] \in Seq(U) /\ Len(g[k]) = off[k]
            /\ \A i \in 1..k : \A j \in 1..L[i] :
                   g[k][off[i - 1] + j] = F[i][j]
            /\ \A i \in 0..k : off[i] <= off[k]
               S == {k \in 0..n : k # 0 => Holds(k)}
    <2>4. 0 \in S
        BY <2>1
    <2>5. ASSUME NEW k \in 1..n, k - 1 \in S PROVE k \in S
        <3>1. /\ off[k] \in Nat /\ off[k - 1] \in Nat
              /\ off[k] = off[k - 1] + L[k] /\ L[k] = Len(F[k])
              /\ L[k] \in Nat
            BY <2>3, <2>8
        <3>2. CASE k = 1
            <4>1. g[1] \in Seq(U) /\ Len(g[1]) = off[1] /\ off[0] = 0
                BY <2>2, <2>3, <3>1, <3>2 DEF Places
            <4>2. \A j \in 1..L[1] : g[1][off[1 - 1] + j] = F[1][j]
                <5>1. \A j \in 1..L[1] : off[1 - 1] + j = j
                    BY <3>1, <3>2, <4>1
                <5> QED BY <2>2, <5>1
            <4>3. \A i \in 0..1 : off[i] <= off[1]
                BY <3>1, <3>2, <4>1
            <4>4. Holds(1)
                BY <4>1, <4>2, <4>3
            <4> HIDE DEF Holds
            <4> QED BY <3>2, <4>4
        <3>3. CASE k # 1
            <4> DEFINE a == g[k - 1]
                       b == F[k]
                       o == off[k - 1]
            <4>1. k - 1 \in 1..n /\ k - 1 # 0 /\ k \in 2..n
                BY <3>3
            <4>2. Holds(k - 1)
                <5> HIDE DEF Holds
                <5> QED BY <2>5, <4>1
            <4>3. g[k] = a \o b
                BY <2>2, <4>1
            <4>4. a \in Seq(U) /\ Len(a) = o /\ b \in Seq(U) /\ Len(b) = L[k]
                BY <2>3, <3>1, <4>2
            <4>5. \A i \in 1..k - 1 : \A j \in 1..L[i] :
                      a[off[i - 1] + j] = F[i][j]
                BY <4>2
            <4>6. \A i \in 0..k - 1 : off[i] <= o
                BY <4>2
            <4>7. \A i \in 1..k : /\ off[i] \in Nat /\ off[i - 1] \in Nat
                                  /\ L[i] \in Nat
                                  /\ off[i] = off[i - 1] + L[i]
                <5>1. \A i \in 1..k : i \in 1..n
                    BY <2>1
                <5> QED BY <2>3, <2>8, <5>1
            <4>8. \A i \in 0..k : off[i] <= off[k]
                <5>1. \A i \in 0..k : /\ i \in 0..n /\ off[i] \in Nat
                                      /\ i # k => i \in 0..k - 1
                    <6>1. \A i \in 0..k : /\ i \in 0..n
                                          /\ i # k => i \in 0..k - 1
                        BY <2>1
                    <6>2. \A i \in 0..n : off[i] \in Nat
                        BY DEF Places
                    <6> QED BY <6>1, <6>2
                <5>2. off[k - 1] <= off[k] /\ o = off[k - 1]
                    BY <3>1
                <5> HIDE DEF o
                <5>3. \A x, y, z \in Nat : x <= y /\ y <= z => x <= z
                    OBVIOUS
                <5>4. off[k] <= off[k]
                    BY <3>1
                <5> QED BY <3>1, <4>6, <5>1, <5>2, <5>3, <5>4
            <4> HIDE DEF Holds, a, b, o
            <4>9. /\ a \o b \in Seq(U) /\ Len(a \o b) = o + L[k]
                  /\ \A i \in 1..o + L[k] : (a \o b)[i] =
                         IF i <= o THEN a[i] ELSE b[i - o]
                <5>1. /\ a \o b \in Seq(U) /\ Len(a \o b) = Len(a) + Len(b)
                      /\ \A i \in 1..Len(a) + Len(b) : (a \o b)[i] =
                             IF i <= Len(a) THEN a[i] ELSE b[i - Len(a)]
                    <6>1. a \in Seq(U) /\ b \in Seq(U)
                        BY <4>4
                    <6> QED BY ONLY <6>1, ConcatProperties
                <5> QED BY <4>4, <5>1
            <4>10. ASSUME NEW i \in 1..k, NEW j \in 1..L[i]
                   PROVE  (a \o b)[off[i - 1] + j] = F[i][j]
                <5>0. o \in Nat /\ o = off[k - 1]
                    BY <3>1 DEF o
                <5>1. CASE i = k
                    <6>1. /\ off[i - 1] + j \in 1..o + L[k]
                          /\ ~(off[i - 1] + j <= o) /\ (off[i - 1] + j) - o = j
                        BY <3>1, <5>0, <5>1
                    <6> DEFINE z == off[i - 1] + j
                    <6>2. z \in 1..o + L[k] /\ ~(z <= o) /\ z - o = j
                        BY <6>1
                    <6> HIDE DEF z
                    <6>3. (a \o b)[z] = b[z - o]
                        BY <4>9, <6>2
                    <6>4. (a \o b)[z] = F[i][j]
                        BY <5>1, <6>2, <6>3 DEF b
                    <6> QED BY <6>4 DEF z
                <5>2. CASE i # k
                    <6>1. i \in 1..k - 1 /\ i \in 0..k - 1
                        BY <5>2
                    <6>2. off[i - 1] + j \in 1..o + L[k] /\ off[i - 1] + j <= o
                        <7>1. off[i] <= o
                            BY <4>6, <6>1
                        <7>2. /\ off[i] \in Nat /\ off[i - 1] \in Nat
                              /\ L[i] \in Nat /\ off[i] = off[i - 1] + L[i]
                            BY <4>7
                        <7>3. \A x, y, z, l \in Nat :
                                  y = x + z /\ y <= o /\ j <= z =>
                                      /\ x + j \in 1..o + l /\ x + j <= o
                            BY <5>0
                        <7>4. j <= L[i]
                            BY <7>2
                        <7> QED BY <3>1, <7>1, <7>2, <7>3, <7>4
                    <6> QED BY <4>5, <4>9, <6>1, <6>2
                <5> QED BY <5>1, <5>2
            <4>11. Holds(k)
                <5>1. o + L[k] = off[k]
                    BY <3>1 DEF o
                <5> QED BY <4>3, <4>8, <4>9, <4>10, <5>1 DEF Holds
            <4> QED BY <4>11
        <3> QED BY <3>2, <3>3
    <2>6. n \in S
        <3> HIDE DEF S
        <3>1. n \in 0..n /\ n \in Nat
            BY <2>1
        <3>2. \A m \in 1..n : m - 1 \in S => m \in S
            BY <2>5
        <3> QED BY <2>4, <3>1, <3>2, UpTo
    <2>7. Holds(n)
        <3> HIDE DEF Holds
        <3> QED BY <1>2, <2>6
    <2> QED BY <2>2, <2>7
<1> QED BY <1>1, <1>2

-----------------------------------------------------------------------------
(* The response of a server.                                               *)

\* The sequence c has the three elements of a before d, the two of b behind it.
Frames(T, c, a, d, b) ==
    /\ c \in Seq(T) /\ Len(c) = Len(d) + 5
    /\ c[1] = a[1] /\ c[2] = a[2] /\ c[3] = a[3]
    /\ \A j \in 1..Len(d) : c[3 + j] = d[j]
    /\ c[Len(d) + 4] = b[1] /\ c[Len(d) + 5] = b[2]

LEMMA Framed ==
    ASSUME NEW T, NEW a \in Seq(T), Len(a) = 3, NEW d \in Seq(T),
           NEW b \in Seq(T), Len(b) = 2
    PROVE  Frames(T, a \o d \o b, a, d, b)
<1> DEFINE x == a \o d
           c == x \o b
           n == Len(d)
<1>1. /\ x \in Seq(T) /\ Len(x) = Len(a) + Len(d)
      /\ \A i \in 1..Len(a) + Len(d) :
             x[i] = IF i <= Len(a) THEN a[i] ELSE d[i - Len(a)]
    BY ConcatProperties
<1>2. n \in Nat
    OBVIOUS
<1> HIDE DEF x, n, c
<1>3. /\ Len(x) = n + 3
      /\ \A i \in 1..n + 3 : x[i] = IF i <= 3 THEN a[i] ELSE d[i - 3]
    BY <1>1, <1>2 DEF n
<1>4. /\ x \o b \in Seq(T) /\ Len(x \o b) = Len(x) + Len(b)
      /\ \A i \in 1..Len(x) + Len(b) :
             (x \o b)[i] = IF i <= Len(x) THEN x[i] ELSE b[i - Len(x)]
    <2>1. x \in Seq(T) /\ b \in Seq(T)
        BY <1>1
    <2> QED BY ONLY <2>1, ConcatProperties
<1>5. c = x \o b
    BY DEF c
<1>6. /\ c \in Seq(T) /\ Len(c) = n + 5
      /\ \A i \in 1..n + 5 : c[i] = IF i <= n + 3 THEN x[i] ELSE b[i - (n + 3)]
    BY <1>2, <1>3, <1>4, <1>5
<1>7. /\ \A j \in 1..n : /\ 3 + j \in 1..n + 5 /\ 3 + j \in 1..n + 3
                         /\ 3 + j <= n + 3 /\ ~(3 + j <= 3)
                         /\ (3 + j) - 3 = j
      /\ \A j \in 1..3 : /\ j \in 1..n + 5 /\ j \in 1..n + 3
                         /\ j <= n + 3 /\ j <= 3
      /\ \A j \in 1..2 : /\ n + 3 + j \in 1..n + 5 /\ ~(n + 3 + j <= n + 3)
                         /\ (n + 3 + j) - (n + 3) = j
    BY <1>2
<1>8. ASSUME NEW j \in 1..3 PROVE c[j] = a[j]
    <2>1. c[j] = x[j]
        BY <1>6, <1>7
    <2>2. x[j] = a[j]
        BY <1>3, <1>7
    <2> QED BY <2>1, <2>2
<1>9. ASSUME NEW j \in 1..n PROVE c[3 + j] = d[j]
    <2> DEFINE z == 3 + j
    <2>1. /\ z \in 1..n + 5 /\ z \in 1..n + 3 /\ z <= n + 3 /\ ~(z <= 3)
          /\ z - 3 = j
        BY <1>7
    <2> HIDE DEF z
    <2>2. c[z] = x[z] /\ x[z] = d[z - 3]
        BY <1>3, <1>6, <2>1
    <2>3. c[z] = d[j]
        BY <2>1, <2>2
    <2> QED BY <2>3 DEF z
<1>10. ASSUME NEW j \in 1..2 PROVE c[n + 3 + j] = b[j]
    <2> DEFINE z == n + 3 + j
    <2>1. z \in 1..n + 5 /\ ~(z <= n + 3) /\ z - (n + 3) = j
        BY <1>7
    <2> HIDE DEF z
    <2>2. c[z] = b[z - (n + 3)]
        BY <1>6, <2>1
    <2>3. c[z] = b[j]
        BY <2>1, <2>2
    <2> QED BY <2>3 DEF z
<1>11. c[n + 4] = b[1] /\ c[n + 5] = b[2]
    <2>1. n + 4 = n + 3 + 1 /\ n + 5 = n + 3 + 2 /\ 1 \in 1..2 /\ 2 \in 1..2
        BY <1>2
    <2> QED BY <1>10, <2>1
<1>12. c[1] = a[1] /\ c[2] = a[2] /\ c[3] = a[3]
    <2>1. 1 \in 1..3 /\ 2 \in 1..3 /\ 3 \in 1..3
        OBVIOUS
    <2> QED BY <1>8, <2>1
<1>13. Frames(T, c, a, d, b)
    BY <1>6, <1>9, <1>11, <1>12 DEF n, Frames
<1> QED BY <1>13 DEF c, x

Tokens == Bytes \cup {"head", "HEAD", "CR", "LF"} \cup DOMAIN Size

\* Two elements before f.
LEMMA Headed ==
    ASSUME NEW T, NEW f \in Seq(T), NEW x \in T, NEW y \in T,
           NEW W, W = <<x, y>> \o f
    PROVE  /\ W \in Seq(T) /\ Len(W) = 2 + Len(f) /\ W[1] = x /\ W[2] = y
           /\ \A j \in 1..Len(f) : W[2 + j] = f[j]
<1> DEFINE a == <<x, y>>
<1>1. a \in Seq(T) /\ Len(a) = 2 /\ a[1] = x /\ a[2] = y
    OBVIOUS
<1> HIDE DEF a
<1>2. /\ a \o f \in Seq(T) /\ Len(a \o f) = Len(a) + Len(f)
      /\ \A i \in 1..Len(a) + Len(f) :
             (a \o f)[i] = IF i <= Len(a) THEN a[i] ELSE f[i - Len(a)]
    BY <1>1, ConcatProperties
<1>3. W = a \o f /\ Len(f) \in Nat
    BY DEF a
<1>4. /\ W \in Seq(T) /\ Len(W) = 2 + Len(f)
      /\ \A i \in 1..2 + Len(f) : W[i] = IF i <= 2 THEN a[i] ELSE f[i - 2]
    BY <1>1, <1>2, <1>3
<1>5. /\ \A j \in 1..Len(f) : 2 + j \in 1..2 + Len(f) /\ ~(2 + j <= 2)
                              /\ (2 + j) - 2 = j
      /\ 1 \in 1..2 + Len(f) /\ 2 \in 1..2 + Len(f)
    BY <1>3
<1>6. W[1] = x /\ W[2] = y
    BY <1>1, <1>4, <1>5
<1>7. \A j \in 1..Len(f) : W[2 + j] = f[j]
    BY <1>4, <1>5
<1> QED BY <1>4, <1>6, <1>7

\* A chunk on the wire, and which of its tokens belong together.
LEMMA ChunkLook ==
    ASSUME NEW d \in Seq(Bytes), NEW n, n = Len(d), NEW t \in DOMAIN Size,
           t = SizeToken(n), NEW c, c = Chunk(d)
    PROVE  /\ c \in Seq(Tokens) /\ Len(c) = n + 5
           /\ c[1] = t /\ c[2] = "CR" /\ c[3] = "LF"
           /\ \A j \in 1..n : c[3 + j] = d[j]
           /\ c[n + 4] = "CR" /\ c[n + 5] = "LF"
<1> DEFINE a == <<t>> \o CRLF
           b == CRLF
<1>1. t \in Tokens /\ "CR" \in Tokens /\ "LF" \in Tokens /\ d \in Seq(Tokens)
    <2>1. Bytes \subseteq Tokens
        BY DEF Tokens
    <2>2. \A i \in 1..Len(d) : d[i] \in Tokens
        BY <2>1
    <2>3. d = [i \in 1..Len(d) |-> d[i]] /\ Len(d) \in Nat
        OBVIOUS
    <2>4. d \in Seq(Tokens)
        BY <2>2, <2>3
    <2> QED BY <2>4 DEF Tokens
<1>3. a \in Seq(Tokens) /\ Len(a) = 3 /\ a[1] = t /\ a[2] = "CR" /\ a[3] = "LF"
    <2> DEFINE x == <<t>>
    <2>1. x \in Seq(Tokens) /\ Len(x) = 1 /\ x[1] = t
        BY <1>1
    <2>2. CRLF \in Seq(Tokens) /\ Len(CRLF) = 2 /\ CRLF[1] = "CR"
          /\ CRLF[2] = "LF"
        BY <1>1 DEF CRLF
    <2> HIDE DEF x
    <2>3. /\ x \o CRLF \in Seq(Tokens)
          /\ Len(x \o CRLF) = Len(x) + Len(CRLF)
          /\ \A i \in 1..Len(x) + Len(CRLF) : (x \o CRLF)[i] =
                 IF i <= Len(x) THEN x[i] ELSE CRLF[i - Len(x)]
        BY <2>1, <2>2, ConcatProperties
    <2>4. a = x \o CRLF
        BY DEF x
    <2> HIDE DEF a
    <2> QED BY <2>1, <2>2, <2>3, <2>4
<1>4. b \in Seq(Tokens) /\ Len(b) = 2 /\ b[1] = "CR" /\ b[2] = "LF"
    BY <1>1 DEF CRLF
<1>5. c = a \o d \o b
    BY DEF Chunk
<1> HIDE DEF a, b
<1>6. /\ c \in Seq(Tokens) /\ Len(c) = n + 5
      /\ c[1] = a[1] /\ c[2] = a[2] /\ c[3] = a[3]
      /\ \A j \in 1..n : c[3 + j] = d[j]
      /\ c[n + 4] = b[1] /\ c[n + 5] = b[2]
    <2>1. /\ a \in Seq(Tokens) /\ Len(a) = 3 /\ d \in Seq(Tokens)
          /\ b \in Seq(Tokens) /\ Len(b) = 2
        BY <1>1, <1>3, <1>4
    <2>2. Frames(Tokens, a \o d \o b, a, d, b)
        BY <2>1, Framed
    <2>3. Frames(Tokens, c, a, d, b)
        BY <1>5, <2>2
    <2> QED BY <2>3 DEF Frames
<1> QED BY <1>3, <1>4, <1>6

\* After x and y, the sequences F lie in W at their places.
LiesIn(W, T, x, y, F, off) ==
    /\ W \in Seq(T) /\ Len(W) = 2 + off[Len(F)] /\ W[1] = x /\ W[2] = y
    /\ \A i \in 1..Len(F) : \A j \in 1..Len(F[i]) :
           W[2 + (off[i - 1] + j)] = F[i][j]

LEMMA HeadedFlat ==
    ASSUME NEW T, NEW F \in Seq(Seq(T)), NEW off, NEW L,
           Places(off, L, Len(F)), \A i \in 1..Len(F) : L[i] = Len(F[i]),
           NEW x \in T, NEW y \in T
    PROVE  LiesIn(<<x, y>> \o FlattenSeq(F), T, x, y, F, off)
<1> DEFINE f == FlattenSeq(F)
           n == Len(F)
           W == <<x, y>> \o f
<1>1. /\ f \in Seq(T) /\ Len(f) = off[n]
      /\ \A i \in 1..n : \A j \in 1..L[i] : f[off[i - 1] + j] = F[i][j]
      /\ \A i \in 0..n : off[i] <= off[n]
    BY FlattenAt
<1>2. n \in Nat /\ \A i \in 1..n : Len(F[i]) \in Nat /\ L[i] = Len(F[i])
    OBVIOUS
<1>3. /\ \A i \in 0..n : off[i] \in Nat
      /\ \A i \in 1..n : off[i] = off[i - 1] + L[i]
    BY DEF Places
<1> HIDE DEF f, n
<1>4. /\ W \in Seq(T) /\ Len(W) = 2 + Len(f) /\ W[1] = x /\ W[2] = y
      /\ \A j \in 1..Len(f) : W[2 + j] = f[j]
    BY <1>1, Headed
<1> HIDE DEF W
<1>5. ASSUME NEW i \in 1..n, NEW j \in 1..Len(F[i])
      PROVE  W[2 + (off[i - 1] + j)] = F[i][j]
    <2>1. i \in 0..n /\ i - 1 \in 0..n /\ n \in 0..n
        BY <1>2
    <2>2. /\ off[i] \in Nat /\ off[i - 1] \in Nat /\ off[n] \in Nat
          /\ L[i] \in Nat /\ j \in 1..L[i]
          /\ off[i] = off[i - 1] + L[i] /\ off[i] <= off[n]
        BY <1>1, <1>2, <1>3, <2>1
    <2> DEFINE z == off[i - 1] + j
    <2>3. z \in 1..Len(f)
        <3>1. \A a, b, c, d \in Nat : b = a + d /\ b <= c =>
                  \A v \in 1..d : a + v \in 1..c
            OBVIOUS
        <3> QED BY <1>1, <2>2, <3>1
    <2>4. f[z] = F[i][j]
        BY <1>1, <2>2
    <2> HIDE DEF z
    <2>5. W[2 + z] = F[i][j]
        BY <1>4, <2>3, <2>4
    <2> QED BY <2>5 DEF z
<1>6. LiesIn(W, T, x, y, F, off)
    BY <1>1, <1>4, <1>5 DEF LiesIn, n
<1> QED BY <1>6 DEF W, f

\* A chunk header with the size t ends at c; what is before it ends at a.
HeaderAt(W, a, c, t) ==
    \/ /\ c = a + 3
       /\ W[a + 1] = t /\ W[a + 2] = "CR" /\ W[a + 3] = "LF"
    \/ /\ c = a + 5 /\ W[a + 1] = "CR" /\ W[a + 2] = "LF"
       /\ W[a + 3] = t /\ W[a + 4] = "CR" /\ W[a + 5] = "LF"

\* The chunk d: its header from a to s, its bytes from s to e of the wire W and
\* from x to y of the body B.
ChunkAt(W, B, J, d, a, s, e, x, y) ==
    /\ a \in Nat /\ s \in Nat /\ e \in Nat /\ x \in Nat /\ y \in Nat
    /\ Len(d) \in Nat /\ e = s + Len(d) /\ y = x + Len(d)
    /\ HeaderAt(W, a, s, SizeToken(Len(d)))
    /\ \A j \in 1..Len(d) : W[s + j] = B[x + j]
    /\ \A j \in a + 1..s - 1 : J[j] = TRUE

\* A response begins with its head.
Begins(r) ==
    /\ Wire[r] \in Seq(Tokens) /\ Body(r) \in Seq(Bytes) /\ Len(Wire[r]) >= 2
    /\ Wire[r][1] = "head" /\ Joined[r][1] = TRUE

\* Where the chunks of r are: their bytes begin at start and end at end.
Layout(r, end, start, body) ==
    /\ Begins(r)
    /\ end[0] = 2 /\ body[0] = 0
    /\ Len(Wire[r]) = end[Len(Chunks(r))] + 2
    /\ body[Len(Chunks(r))] = Len(Body(r))
    /\ \A k \in 1..Len(Chunks(r)) :
           ChunkAt(Wire[r], Body(r), Joined[r], Chunks(r)[k], end[k - 1],
                   start[k], end[k], body[k - 1], body[k])

\* The chunks C of a response with the last one, D: n of them.
AllChunks(C, D, n) ==
    /\ D \in Seq(Seq(Bytes)) /\ n \in Nat /\ n >= 1 /\ Len(C) = n - 1
    /\ \A k \in 1..n - 1 : D[k] = C[k] /\ Len(D[k]) # 0
    /\ Len(D[n]) = 0
    /\ \A k \in 1..n : /\ SizeToken(Len(D[k])) \in DOMAIN Size
                       /\ Size[SizeToken(Len(D[k]))] = Len(D[k])

LEMMA ChunksOf ==
    ASSUME NEW r \in Responses, r.kind = "chunked"
    PROVE  AllChunks(r.chunks, Chunks(r), Len(Chunks(r)))
<1> DEFINE C == r.chunks
           D == Chunks(r)
           n == Len(D)
<1>1. /\ C \in Seq(Seq(Bytes)) /\ \A i \in DOMAIN C : C[i] # <<>>
      /\ \A d \in {<<>>} \cup Range(C) :
             \E t \in DOMAIN Size : Size[t] = Len(d)
    BY ResponsesAssumption
<1>2. D = Append(C, <<>>)
    BY DEF Chunks
<1>3. <<>> \in Seq(Bytes)
    OBVIOUS
<1> HIDE DEF C, D, n
<1>4. /\ D \in Seq(Seq(Bytes)) /\ Len(D) = Len(C) + 1
      /\ \A i \in 1..Len(C) : D[i] = C[i]
      /\ D[Len(C) + 1] = <<>>
    BY <1>1, <1>2, <1>3, AppendProperties
<1>5. Len(C) \in Nat /\ n = Len(C) + 1 /\ Len(C) = n - 1
    BY <1>1, <1>4 DEF n
<1>6. \A k \in 1..n - 1 : D[k] = C[k] /\ Len(D[k]) # 0
    <2>1. \A k \in 1..n - 1 : D[k] = C[k] /\ C[k] \in Seq(Bytes) /\ C[k] # <<>>
        <3>1. \A k \in 1..n - 1 : k \in 1..Len(C)
            BY <1>5
        <3>2. \A k \in 1..Len(C) : k \in DOMAIN C /\ C[k] \in Seq(Bytes)
            BY <1>1
        <3> QED BY <1>1, <1>4, <3>1, <3>2
    <2>2. \A d \in Seq(Bytes) : d # <<>> => Len(d) # 0
        OBVIOUS
    <2> QED BY <2>1, <2>2
<1>7. D[n] = <<>> /\ Len(<<>>) = 0
    BY <1>4, <1>5
<1>8. ASSUME NEW k \in 1..n
      PROVE  /\ SizeToken(Len(D[k])) \in DOMAIN Size
             /\ Size[SizeToken(Len(D[k]))] = Len(D[k])
    <2>1. D[k] \in {<<>>} \cup Range(C)
        <3>1. CASE k = n
            BY <1>7, <3>1
        <3>2. CASE k # n
            <4>1. k \in 1..Len(C) /\ DOMAIN C = 1..Len(C)
                BY <1>1, <1>5, <3>2
            <4>2. D[k] = C[k]
                BY <1>4, <4>1
            <4> QED BY <4>1, <4>2 DEF Range
        <3> QED BY <3>1, <3>2
    <2>2. \E t \in DOMAIN Size : Size[t] = Len(D[k])
        BY <1>1, <2>1
    <2> QED BY <2>2, Zenon DEF SizeToken
<1>9. AllChunks(C, D, n)
    BY <1>4, <1>5, <1>6, <1>7, <1>8 DEF AllChunks
<1> QED BY <1>9 DEF C, D, n

\* The tokens of the chunk d after the first z of W: those that belong
\* together are marked in J, its bytes are those of B after the first x.
TokensAt(W, J, B, d, z, x) ==
    /\ W[z + 1] = SizeToken(Len(d)) /\ W[z + 2] = "CR" /\ W[z + 3] = "LF"
    /\ \A j \in 1..Len(d) : W[z + (3 + j)] = B[x + j]
    /\ W[z + (Len(d) + 4)] = "CR" /\ W[z + (Len(d) + 5)] = "LF"
    /\ J[z + 1] = TRUE /\ J[z + 2] = TRUE
    /\ J[z + (Len(d) + 4)] = TRUE /\ J[z + (Len(d) + 5)] = TRUE

\* The places of the chunks, by the places of their tokens.
LEMMA ChunkPlaced ==
    ASSUME NEW D, NEW n \in Nat, Len(D) = n,
           \A i \in 1..n : Len(D[i]) \in Nat,
           NEW off, NEW L, Places(off, L, n),
           \A i \in 1..n : L[i] = Len(D[i]) + 5,
           NEW W, NEW J, NEW B, NEW body \in [0..n -> Nat],
           \A i \in 1..n : body[i] = body[i - 1] + Len(D[i]),
           \A i \in 1..n :
               TokensAt(W, J, B, D[i], 2 + off[i - 1], body[i - 1]),
           NEW k \in 1..n, NEW a, a = IF k = 1 THEN 2 ELSE off[k - 1]
    PROVE  ChunkAt(W, B, J, D[k], a, off[k - 1] + 5, off[k],
                   body[k - 1], body[k])
<1> DEFINE o == off[k - 1]
           c == Len(D[k])
           t == SizeToken(c)
           s == o + 5
           x == body[k - 1]
<1>1. /\ o \in Nat /\ off[k] \in Nat /\ x \in Nat /\ body[k] \in Nat
      /\ c \in Nat /\ off[k] = s + c /\ body[k] = x + c
    <2>1. k \in 0..n /\ k - 1 \in 0..n
        OBVIOUS
    <2>2. \A i \in 0..n : off[i] \in Nat /\ body[i] \in Nat
        BY DEF Places
    <2>3. off[k] = off[k - 1] + L[k] /\ L[k] = Len(D[k]) + 5
        BY DEF Places
    <2>4. o \in Nat /\ x \in Nat /\ off[k] \in Nat /\ body[k] \in Nat
        BY <2>1, <2>2
    <2>5. c \in Nat /\ body[k] = x + c /\ off[k] = o + (c + 5)
        BY <2>3
    <2> HIDE DEF o, c, x
    <2> QED BY <2>4, <2>5
<1>2. /\ W[2 + o + 1] = t /\ W[2 + o + 2] = "CR" /\ W[2 + o + 3] = "LF"
      /\ \A j \in 1..c : W[2 + o + (3 + j)] = B[x + j]
      /\ J[2 + o + 1] = TRUE /\ J[2 + o + 2] = TRUE
    BY DEF TokensAt
<1>3. k = 1 => o = 0
    BY DEF Places
<1>4. k # 1 => /\ W[o + 1] = "CR" /\ W[o + 2] = "LF"
               /\ J[o + 1] = TRUE /\ J[o + 2] = TRUE
    <2> SUFFICES ASSUME k # 1
                 PROVE  /\ W[o + 1] = "CR" /\ W[o + 2] = "LF"
                        /\ J[o + 1] = TRUE /\ J[o + 2] = TRUE
        OBVIOUS
    <2> DEFINE i == k - 1
               p == off[i - 1]
               d == Len(D[i])
    <2>1. i \in 1..n /\ i - 1 \in 0..n
        OBVIOUS
    <2>2. p \in Nat /\ d \in Nat /\ o = p + (d + 5)
        BY <2>1 DEF Places
    <2>3. /\ W[2 + p + (d + 4)] = "CR" /\ W[2 + p + (d + 5)] = "LF"
          /\ J[2 + p + (d + 4)] = TRUE /\ J[2 + p + (d + 5)] = TRUE
        BY <2>1 DEF TokensAt
    <2> HIDE DEF i, p, d, o
    <2>4. 2 + p + (d + 4) = o + 1 /\ 2 + p + (d + 5) = o + 2
        BY <2>2
    <2> QED BY <2>3, <2>4
<1> HIDE DEF o, c, t, x
<1>5. /\ 2 + o + 1 = o + 3 /\ 2 + o + 2 = o + 4 /\ 2 + o + 3 = o + 5
      /\ \A j \in 1..c : 2 + o + (3 + j) = s + j
    BY <1>1
<1>6. /\ W[o + 3] = t /\ W[o + 4] = "CR" /\ W[o + 5] = "LF"
      /\ \A j \in 1..c : W[s + j] = B[x + j]
      /\ J[o + 3] = TRUE /\ J[o + 4] = TRUE
    <2> HIDE DEF s
    <2> QED BY <1>2, <1>5
<1>7. a \in Nat /\ a = IF k = 1 THEN 2 ELSE o
    BY <1>1 DEF o
<1>8. HeaderAt(W, a, s, t)
    <2>1. CASE k = 1
        <3>1. o = 0 /\ a = 2
            BY <1>3, <1>7, <2>1
        <3>2. s = a + 3 /\ a + 1 = o + 3 /\ a + 2 = o + 4 /\ a + 3 = o + 5
            <4>1. \A u, v \in Nat : u = 0 /\ v = 2 =>
                      /\ u + 5 = v + 3 /\ v + 1 = u + 3
                      /\ v + 2 = u + 4 /\ v + 3 = u + 5
                OBVIOUS
            <4> QED BY <1>1, <1>7, <3>1, <4>1
        <3> HIDE DEF s
        <3> QED BY <1>6, <3>2 DEF HeaderAt
    <2>2. CASE k # 1
        <3>1. a = o
            BY <1>7, <2>2
        <3>2. s = a + 5
            BY <3>1
        <3> HIDE DEF s
        <3> QED BY <1>4, <1>6, <2>2, <3>1, <3>2 DEF HeaderAt
    <2> QED BY <2>1, <2>2
<1>9. ASSUME NEW j \in a + 1..s - 1 PROVE J[j] = TRUE
    <2>1. CASE k = 1
        <3>1. o = 0 /\ a = 2
            BY <1>3, <1>7, <2>1
        <3>2. j = o + 3 \/ j = o + 4
            <4>1. \A u, v \in Nat : u = 0 /\ v = 2 =>
                      \A i \in v + 1..(u + 5) - 1 : i = u + 3 \/ i = u + 4
                OBVIOUS
            <4> QED BY <1>1, <1>7, <3>1, <4>1
        <3> QED BY <1>6, <3>2
    <2>2. CASE k # 1
        <3>1. a = o
            BY <1>7, <2>2
        <3>2. j = o + 1 \/ j = o + 2 \/ j = o + 3 \/ j = o + 4
            <4>1. \A u \in Nat : \A i \in u + 1..(u + 5) - 1 :
                      i = u + 1 \/ i = u + 2 \/ i = u + 3 \/ i = u + 4
                OBVIOUS
            <4> QED BY <1>1, <3>1, <4>1
        <3> QED BY <1>4, <1>6, <2>2, <3>2
    <2> QED BY <2>1, <2>2
<1>10. s \in Nat
    BY <1>1
<1> HIDE DEF s
<1>11. ChunkAt(W, B, J, D[k], a, s, off[k], x, body[k])
    BY <1>1, <1>6, <1>7, <1>8, <1>9, <1>10 DEF ChunkAt, c, t
<1> QED BY <1>11 DEF s, o, x

\* The chunks of a response are somewhere.
LEMMA LayoutExists ==
    ASSUME NEW r \in Responses, r.kind = "chunked"
    PROVE  \E end, start, body : Layout(r, end, start, body)
<1> DEFINE D == Chunks(r)
           n == Len(D)
           W == Wire[r]
           J == Joined[r]
           B == Body(r)
           F == [i \in 1..n |-> Chunk(D[i])]
           G == [i \in 1..n |-> JoinedChunk(D[i])]
           L == [i \in 1..n |-> Len(D[i]) + 5]
           M == [i \in 1..n |-> Len(D[i])]
<1>1. /\ D \in Seq(Seq(Bytes)) /\ n \in Nat /\ n >= 1 /\ Len(r.chunks) = n - 1
      /\ \A k \in 1..n - 1 : D[k] = r.chunks[k] /\ Len(D[k]) # 0
      /\ Len(D[n]) = 0
      /\ \A k \in 1..n : SizeToken(Len(D[k])) \in DOMAIN Size
    <2>1. AllChunks(r.chunks, D, n)
        BY ChunksOf
    <2> HIDE DEF D, n
    <2> QED BY <2>1 DEF AllChunks
<1>2. \A k \in 1..n : D[k] \in Seq(Bytes) /\ Len(D[k]) \in Nat
    BY <1>1
<1>3. DOMAIN D = 1..n
    BY <1>1
<1>4. W = <<"head", "HEAD">> \o FlattenSeq(F)
    BY <1>3, Zenon DEF Wire
<1>5. J = <<TRUE, FALSE>> \o FlattenSeq(G)
    BY <1>3, Zenon DEF Joined
<1>6. r.chunks \in Seq(Seq(Bytes)) /\ B = FlattenSeq(r.chunks)
    BY ResponsesAssumption DEF Body
<1> HIDE DEF D, n, W, J, B
<1>7. \A i \in 1..n : L[i] = Len(D[i]) + 5 /\ L[i] \in Nat
                      /\ M[i] = Len(D[i]) /\ M[i] \in Nat
    BY <1>2
<1> HIDE DEF L, M
<1>8. PICK off : Places(off, L, n)
    BY <1>1, <1>7, PlacesExist
<1>9. PICK body : Places(body, M, n)
    BY <1>1, <1>7, PlacesExist
<1>10. /\ \A i \in 0..n : off[i] \in Nat /\ body[i] \in Nat
       /\ off[0] = 0 /\ body[0] = 0
       /\ \A i \in 1..n : body[i] = body[i - 1] + Len(D[i])
       /\ body \in [0..n -> Nat]
    BY <1>7, <1>8, <1>9 DEF Places
<1>11. ASSUME NEW i \in 1..n
       PROVE  /\ F[i] = Chunk(D[i])
              /\ F[i] \in Seq(Tokens) /\ Len(F[i]) = Len(D[i]) + 5
              /\ F[i][1] = SizeToken(Len(D[i])) /\ F[i][2] = "CR"
              /\ F[i][3] = "LF"
              /\ \A j \in 1..Len(D[i]) : F[i][3 + j] = D[i][j]
              /\ F[i][Len(D[i]) + 4] = "CR" /\ F[i][Len(D[i]) + 5] = "LF"
    <2> DEFINE d == D[i]
               c == Chunk(d)
    <2>1. d \in Seq(Bytes) /\ SizeToken(Len(d)) \in DOMAIN Size
        BY <1>1, <1>2
    <2>2. F[i] = c
        OBVIOUS
    <2> HIDE DEF d, F
    <2>3. /\ c \in Seq(Tokens) /\ Len(c) = Len(d) + 5
          /\ c[1] = SizeToken(Len(d)) /\ c[2] = "CR" /\ c[3] = "LF"
          /\ \A j \in 1..Len(d) : c[3 + j] = d[j]
          /\ c[Len(d) + 4] = "CR" /\ c[Len(d) + 5] = "LF"
        BY <2>1, ChunkLook
    <2> HIDE DEF c
    <2> QED BY <2>2, <2>3 DEF d, c
<1>12. ASSUME NEW i \in 1..n
       PROVE  /\ G[i] \in Seq(BOOLEAN) /\ Len(G[i]) = Len(D[i]) + 5
              /\ G[i][1] = TRUE /\ G[i][2] = TRUE
              /\ G[i][Len(D[i]) + 4] = TRUE /\ G[i][Len(D[i]) + 5] = TRUE
    <2> DEFINE d == D[i]
               a == <<TRUE, TRUE, FALSE>>
               b == <<TRUE, TRUE>>
               m == [j \in DOMAIN d |-> FALSE]
    <2>1. G[i] = a \o m \o b
        BY DEF JoinedChunk
    <2>2. DOMAIN d = 1..Len(d) /\ Len(d) \in Nat
        BY <1>2
    <2>3. m \in Seq(BOOLEAN) /\ Len(m) = Len(d)
        <3> HIDE DEF d
        <3> QED BY <2>2
    <2>4. a \in Seq(BOOLEAN) /\ Len(a) = 3 /\ a[1] = TRUE /\ a[2] = TRUE
        OBVIOUS
    <2>5. b \in Seq(BOOLEAN) /\ Len(b) = 2 /\ b[1] = TRUE /\ b[2] = TRUE
        OBVIOUS
    <2> HIDE DEF a, b, m, d, G
    <2>6. Frames(BOOLEAN, a \o m \o b, a, m, b)
        BY <2>3, <2>4, <2>5, Framed
    <2>7. Frames(BOOLEAN, G[i], a, m, b)
        BY <2>1, <2>6
    <2> QED BY <2>3, <2>4, <2>5, <2>7, Zenon DEF Frames, d
<1>13. F \in Seq(Seq(Tokens)) /\ Len(F) = n
    <2>1. F = [i \in 1..n |-> F[i]]
        OBVIOUS
    <2> HIDE DEF F
    <2>2. F \in [1..n -> Seq(Tokens)]
        BY <1>11, <2>1
    <2> QED BY <1>1, <2>2
<1>14. G \in Seq(Seq(BOOLEAN)) /\ Len(G) = n
    <2>1. G = [i \in 1..n |-> G[i]]
        OBVIOUS
    <2> HIDE DEF G
    <2>2. G \in [1..n -> Seq(BOOLEAN)]
        BY <1>12, <2>1
    <2> QED BY <1>1, <2>2
<1> HIDE DEF F, G
<1>15. LiesIn(W, Tokens, "head", "HEAD", F, off)
    <2>1. "head" \in Tokens /\ "HEAD" \in Tokens
        BY DEF Tokens
    <2>2. Places(off, L, Len(F)) /\ \A i \in 1..Len(F) : L[i] = Len(F[i])
        BY <1>7, <1>8, <1>11, <1>13
    <2> QED BY <1>4, <1>13, <2>1, <2>2, HeadedFlat
<1>16. LiesIn(J, BOOLEAN, TRUE, FALSE, G, off)
    <2>2. Places(off, L, Len(G)) /\ \A i \in 1..Len(G) : L[i] = Len(G[i])
        BY <1>7, <1>8, <1>12, <1>14
    <2>3. TRUE \in BOOLEAN /\ FALSE \in BOOLEAN
        OBVIOUS
    <2>4. LiesIn(<<TRUE, FALSE>> \o FlattenSeq(G), BOOLEAN, TRUE, FALSE, G,
                 off)
        BY <1>14, <2>2, <2>3, HeadedFlat
    <2> QED BY <1>5, <2>4
<1>17. /\ Len(B) = body[n - 1] /\ B \in Seq(Bytes)
       /\ \A i \in 1..n - 1 : \A j \in 1..Len(D[i]) :
              B[body[i - 1] + j] = D[i][j]
    <2>1. Places([i \in 0..n - 1 |-> body[i]], M, n - 1)
        <3>1. \A i \in 0..n - 1 : i \in 0..n /\ (i # 0 => i - 1 \in 0..n - 1)
            BY <1>1
        <3>2. /\ \A i \in 0..n : body[i] \in Nat
              /\ \A i \in 1..n : body[i] = body[i - 1] + M[i]
            BY <1>9 DEF Places
        <3>3. 0 \in 0..n - 1 /\ \A i \in 1..n - 1 : /\ i \in 0..n - 1
                                                    /\ i - 1 \in 0..n - 1
                                                    /\ i \in 1..n
            BY <1>1
        <3> QED BY <1>10, <3>1, <3>2, <3>3 DEF Places
    <2> DEFINE bo == [i \in 0..n - 1 |-> body[i]]
               C == r.chunks
               m == n - 1
    <2>2. /\ \A i \in 0..m : bo[i] = body[i]
          /\ m \in 0..m /\ \A i \in 1..m : i - 1 \in 0..m /\ i \in 1..n
        BY <1>1
    <2>3. C \in Seq(Seq(Bytes)) /\ m = Len(C) /\ \A i \in 1..m : C[i] = D[i]
        BY <1>1, <1>6
    <2>4. \A i \in 1..m : M[i] = Len(C[i])
        BY <1>7, <2>2, <2>3
    <2>5. Places(bo, M, m)
        BY <2>1
    <2> HIDE DEF bo, C, m
    <2>6. /\ B \in Seq(Bytes) /\ Len(B) = bo[m]
          /\ \A i \in 1..m : \A j \in 1..M[i] : B[bo[i - 1] + j] = C[i][j]
        BY <1>6, <2>3, <2>4, <2>5, FlattenAt DEF C
    <2>7. Len(B) = body[m]
        BY <2>2, <2>6
    <2>8. \A i \in 1..m : \A j \in 1..Len(D[i]) : B[body[i - 1] + j] = D[i][j]
        BY <2>2, <2>3, <2>4, <2>6
    <2> QED BY <2>6, <2>7, <2>8 DEF m
<1>18. ASSUME NEW i \in 1..n
       PROVE  TokensAt(W, J, B, D[i], 2 + off[i - 1], body[i - 1])
    <2> DEFINE o == off[i - 1]
               c == Len(D[i])
               z == 2 + o
    <2>1. i - 1 \in 0..n
        BY <1>1
    <2>2. o \in Nat /\ c \in Nat
        BY <1>2, <1>10, <2>1
    <2>3. \A j \in 1..c + 5 : /\ W[2 + (o + j)] = F[i][j]
                              /\ J[2 + (o + j)] = G[i][j]
        <3>1. \A j \in 1..Len(F[i]) : W[2 + (o + j)] = F[i][j]
            BY <1>13, <1>15 DEF LiesIn
        <3>2. \A j \in 1..Len(G[i]) : J[2 + (o + j)] = G[i][j]
            BY <1>14, <1>16, Zenon DEF LiesIn
        <3> QED BY <1>11, <1>12, <3>1, <3>2
    <2> HIDE DEF o, c
    <2>4. /\ 1 \in 1..c + 5 /\ 2 \in 1..c + 5 /\ 3 \in 1..c + 5
          /\ \A j \in 1..c : 3 + j \in 1..c + 5
          /\ c + 4 \in 1..c + 5 /\ c + 5 \in 1..c + 5
          /\ \A j \in Nat : 2 + (o + j) = z + j
        BY <2>2
    <2>5. \A j \in 1..c + 5 : W[z + j] = F[i][j] /\ J[z + j] = G[i][j]
        <3>1. \A j \in 1..c + 5 : j \in Nat
            BY <2>2
        <3> QED BY <2>3, <2>4, <3>1
    <2> HIDE DEF z
    <2>6. /\ W[z + 1] = SizeToken(c) /\ W[z + 2] = "CR" /\ W[z + 3] = "LF"
          /\ W[z + (c + 4)] = "CR" /\ W[z + (c + 5)] = "LF"
        BY <1>11, <2>4, <2>5 DEF c
    <2>7. /\ J[z + 1] = TRUE /\ J[z + 2] = TRUE
          /\ J[z + (c + 4)] = TRUE /\ J[z + (c + 5)] = TRUE
        BY <1>12, <2>4, <2>5, Zenon DEF c
    <2>8. ASSUME NEW j \in 1..c
          PROVE  W[z + (3 + j)] = B[body[i - 1] + j]
        <3>1. W[z + (3 + j)] = F[i][3 + j]
            BY <2>4, <2>5
        <3>2. F[i][3 + j] = D[i][j]
            BY <1>11 DEF c
        <3>3. i \in 1..n - 1
            <4>1. i # n
                BY <1>1, <2>2 DEF c
            <4> QED BY <1>1, <4>1
        <3>4. B[body[i - 1] + j] = D[i][j]
            BY <1>17, <3>3 DEF c
        <3> QED BY <3>1, <3>2, <3>4
    <2>9. TokensAt(W, J, B, D[i], z, body[i - 1])
        BY <2>6, <2>7, <2>8 DEF TokensAt, c
    <2> QED BY <2>9 DEF z, o
<1> DEFINE end == [k \in 0..n |-> IF k = 0 THEN 2 ELSE off[k]]
           start == [k \in 1..n |-> off[k - 1] + 5]
<1>19. ASSUME NEW k \in 1..n
       PROVE  ChunkAt(W, B, J, D[k], end[k - 1], start[k], end[k],
                      body[k - 1], body[k])
    <2>1. k - 1 \in 0..n /\ k \in 0..n /\ k # 0 /\ (k = 1 <=> k - 1 = 0)
        BY <1>1
    <2>2. /\ end[k - 1] = (IF k = 1 THEN 2 ELSE off[k - 1])
          /\ end[k] = off[k] /\ start[k] = off[k - 1] + 5
        BY <2>1
    <2>3. /\ \A i \in 1..n : Len(D[i]) \in Nat
          /\ \A i \in 1..n : L[i] = Len(D[i]) + 5
          /\ Len(D) = n
        BY <1>2, <1>7 DEF n
    <2>4. ASSUME NEW a, a = IF k = 1 THEN 2 ELSE off[k - 1]
          PROVE  ChunkAt(W, B, J, D[k], a, off[k - 1] + 5, off[k],
                         body[k - 1], body[k])
        BY <1>1, <1>8, <1>10, <1>18, <2>3, <2>4, ChunkPlaced
    <2> HIDE DEF end, start
    <2> QED BY <2>2, <2>4
<1>20. end[0] = 2 /\ Len(W) = end[n] + 2 /\ body[n] = Len(B)
    <2>1. end[n] = off[n] /\ end[0] = 2 /\ off[n] \in Nat
        BY <1>1, <1>10
    <2>2. Len(W) = 2 + off[n]
        BY <1>13, <1>15 DEF LiesIn
    <2>3. body[n] = body[n - 1] + 0 /\ body[n - 1] \in Nat
        BY <1>1, <1>10
    <2> HIDE DEF end
    <2> QED BY <1>17, <2>1, <2>2, <2>3
<1> HIDE DEF end, start
<1>21. Begins(r)
    <2>1. W \in Seq(Tokens) /\ W[1] = "head" /\ Len(W) = 2 + off[n]
        BY <1>13, <1>15 DEF LiesIn
    <2>2. J[1] = TRUE
        BY <1>16, Zenon DEF LiesIn
    <2>3. Len(W) >= 2
        BY <1>1, <1>10, <2>1
    <2> QED BY <1>17, <2>1, <2>2, <2>3 DEF Begins, W, J, B
<1>22. Layout(r, end, start, body)
    BY <1>10, <1>19, <1>20, <1>21 DEF Layout, D, n, W, J, B
<1> QED BY <1>22

\* The chunks lie one behind the other.
LEMMA LayoutUp ==
    ASSUME NEW r \in Responses, r.kind = "chunked", NEW end, NEW start,
           NEW body, Layout(r, end, start, body), NEW n, n = Len(Chunks(r))
    PROVE  \A k \in 1..n : /\ end[k - 1] < start[k] /\ start[k] <= end[k]
                           /\ end[k] <= end[n] /\ body[k] <= body[n]
<1>1. n \in Nat /\ n >= 1
    BY ChunksOf DEF AllChunks
<1>2. ASSUME NEW k \in 1..n
      PROVE  /\ end[k - 1] \in Nat /\ start[k] \in Nat /\ end[k] \in Nat
             /\ body[k - 1] \in Nat /\ body[k] \in Nat
             /\ end[k - 1] < start[k] /\ start[k] <= end[k]
             /\ body[k - 1] <= body[k]
    <2> DEFINE W == Wire[r]
               c == Len(Chunks(r)[k])
    <2>1. /\ end[k - 1] \in Nat /\ start[k] \in Nat /\ end[k] \in Nat
          /\ body[k - 1] \in Nat /\ body[k] \in Nat
          /\ c \in Nat /\ end[k] = start[k] + c /\ body[k] = body[k - 1] + c
          /\ HeaderAt(W, end[k - 1], start[k], SizeToken(c))
        BY DEF Layout, ChunkAt
    <2> HIDE DEF c, W
    <2>2. start[k] = end[k - 1] + 3 \/ start[k] = end[k - 1] + 5
        BY <2>1 DEF HeaderAt
    <2> QED BY <2>1, <2>2
<1> DEFINE S == {m \in 0..n - 1 : /\ end[n - m] <= end[n]
                                  /\ body[n - m] <= body[n]}
<1>3. 0 \in S
    <2>1. n - 0 = n /\ n \in 1..n /\ 0 \in 0..n - 1
        BY <1>1
    <2>2. end[n] \in Nat /\ body[n] \in Nat
        BY <1>2, <2>1
    <2> QED BY <2>1, <2>2
<1>4. ASSUME NEW m \in 1..n - 1, m - 1 \in S PROVE m \in S
    <2> DEFINE k == n - (m - 1)
    <2>1. k \in 1..n /\ k - 1 \in 1..n /\ n \in 1..n /\ n - m = k - 1
          /\ m \in 0..n - 1
        BY <1>1
    <2>2. end[k] <= end[n] /\ body[k] <= body[n]
        BY <1>4
    <2> HIDE DEF k
    <2>3. /\ end[k - 1] <= end[k] /\ body[k - 1] <= body[k]
          /\ end[k - 1] \in Nat /\ end[k] \in Nat /\ end[n] \in Nat
          /\ body[k - 1] \in Nat /\ body[k] \in Nat /\ body[n] \in Nat
        <3>1. /\ end[k - 1] \in Nat /\ start[k] \in Nat /\ end[k] \in Nat
              /\ body[k - 1] \in Nat /\ body[k] \in Nat
              /\ end[k - 1] < start[k] /\ start[k] <= end[k]
              /\ body[k - 1] <= body[k]
            BY <1>2, <2>1
        <3>2. end[n] \in Nat /\ body[n] \in Nat
            BY <1>2, <2>1
        <3> QED BY <3>1, <3>2
    <2>4. end[k - 1] <= end[n] /\ body[k - 1] <= body[n]
        BY <2>2, <2>3
    <2> QED BY <2>1, <2>4
<1>5. \A m \in 0..n - 1 : m \in S
    <2> HIDE DEF S
    <2>1. \A m \in 1..n - 1 : m - 1 \in S => m \in S
        BY <1>4
    <2>2. n - 1 \in Nat
        BY <1>1
    <2> QED BY <1>3, <2>1, <2>2, UpTo
<1>6. ASSUME NEW k \in 1..n PROVE end[k] <= end[n] /\ body[k] <= body[n]
    <2> DEFINE m == n - k
    <2>1. m \in 0..n - 1 /\ n - m = k
        BY <1>1
    <2> HIDE DEF m
    <2>2. end[n - m] <= end[n] /\ body[n - m] <= body[n]
        BY <1>5, <2>1
    <2> QED BY <2>1, <2>2
<1> QED BY <1>2, <1>6

-----------------------------------------------------------------------------
(* The turns of HttpParserResponse.                                        *)

LEMMA FirstTwo ==
    ASSUME NEW T, NEW s \in Seq(T), Len(s) >= 2
    PROVE  SubSeq(s, 1, 2) = <<s[1], s[2]>>
<1> DEFINE x == SubSeq(s, 1, 2)
<1>1. \A i \in 1..2 : s[i] \in T
    OBVIOUS
<1>2. /\ x \in Seq(T) /\ Len(x) = 2
      /\ \A i \in 1..2 : x[i] = s[i]
    <2>1. /\ x \in Seq(T) /\ Len(x) = (IF 1 <= 2 THEN 2 - 1 + 1 ELSE 0)
          /\ \A i \in 1..2 - 1 + 1 : x[i] = s[1 + i - 1]
        BY <1>1, SubSeqProperties
    <2> HIDE DEF x
    <2> QED BY <2>1
<1> HIDE DEF x
<1>3. x = <<s[1], s[2]>>
    BY <1>2
<1> QED BY <1>3 DEF x

\* A sequence begins with CR and LF.
LEMMA BeginsWithCRLF ==
    ASSUME NEW T, NEW s \in Seq(T)
    PROVE  IsPrefix(CRLF, s) <=> Len(s) >= 2 /\ s[1] = "CR" /\ s[2] = "LF"
<1> DEFINE c == SubSeq(CRLF, 1, 2)
           x == SubSeq(s, 1, 2)
<1>1. /\ Len(CRLF) = 2 /\ CRLF[1] = "CR" /\ CRLF[2] = "LF"
      /\ CRLF \in Seq({"CR", "LF"})
    BY DEF CRLF
<1>2. c = <<"CR", "LF">>
    <2>1. Len(CRLF) >= 2
        BY <1>1
    <2> QED BY <1>1, <2>1, FirstTwo
<1>3. Len(s) >= 2 => x = <<s[1], s[2]>>
    BY FirstTwo
<1>4. IsPrefix(CRLF, s) <=> 2 <= Len(s) /\ c = x
    BY <1>1 DEF IsPrefix
<1> HIDE DEF c, x
<1>5. Len(s) \in Nat
    OBVIOUS
<1>6. CASE Len(s) >= 2
    <2>1. c = x <=> s[1] = "CR" /\ s[2] = "LF"
        BY <1>2, <1>3, <1>6
    <2> QED BY <1>4, <1>5, <1>6, <2>1
<1>7. CASE ~(Len(s) >= 2)
    BY <1>4, <1>5, <1>7
<1> QED BY <1>6, <1>7

\* What the parser finds in the part of W between a chunk and a later place c.
Finds(m, t, rest) ==
    /\ execute(m).st = "finished" /\ Head(m) = t
    /\ Drop(m, execute(m).took) = rest

LEMMA HeaderRead ==
    ASSUME NEW W \in Seq(Tokens), NEW a \in Nat, NEW s \in Nat,
           NEW t \in DOMAIN Size, HeaderAt(W, a, s, t),
           NEW c \in Nat, s <= c, c <= Len(W)
    PROVE  Finds(trimmed(Part(W, a, c)), t, Part(W, s, c))
<1> DEFINE m == trimmed(Part(W, a, c))
           e == execute(m)
<1>0. m = trimmed(Part(W, a, c))
    OBVIOUS
<1> HIDE DEF m
<1>1. PICK b \in Nat : /\ m = Part(W, b, c) /\ s = b + 3 /\ W[b + 1] = t
                       /\ W[b + 2] = "CR" /\ W[b + 3] = "LF"
    <2> DEFINE P == Part(W, a, c)
    <2>1. c \in a..Len(W) /\ c - a >= 3 /\ c - a \in Nat
        BY DEF HeaderAt
    <2>2. P \in Seq(Tokens) /\ Len(P) = c - a /\ P[1] = W[a + 1]
          /\ P[2] = W[a + 2]
        <3>1. /\ P \in Seq(Tokens) /\ Len(P) = c - a
              /\ \A i \in 1..c - a : P[i] = W[a + i]
            BY <2>1, PartOf
        <3>2. 1 \in 1..c - a /\ 2 \in 1..c - a
            BY <2>1
        <3> QED BY <3>1, <3>2
    <2>4. CASE s = a + 3 /\ W[a + 1] = t /\ W[a + 2] = "CR" /\ W[a + 3] = "LF"
        <3>1. P[1] # "CR"
            BY <2>2, <2>4, SizeAssumption
        <3> HIDE DEF P
        <3>2. ~IsPrefix(CRLF, P)
            BY <2>2, <3>1, BeginsWithCRLF
        <3>3. m = P
            BY <1>0, <3>2 DEF trimmed, P
        <3> QED BY <2>4, <3>3 DEF P
    <2>5. CASE /\ s = a + 5 /\ W[a + 1] = "CR" /\ W[a + 2] = "LF"
               /\ W[a + 3] = t /\ W[a + 4] = "CR" /\ W[a + 5] = "LF"
        <3> DEFINE b == a + 2
        <3>1. Drop(P, 2) = Part(W, b, c)
            <4>1. 2 \in 0..c - a
                BY <2>1
            <4> QED BY <2>1, <4>1, Dropped
        <3> HIDE DEF P
        <3>2. IsPrefix(CRLF, P)
            BY <2>1, <2>2, <2>5, BeginsWithCRLF
        <3>3. m = Drop(P, 2)
            BY <1>0, <3>2 DEF trimmed, P
        <3>4. /\ b \in Nat /\ s = b + 3 /\ b + 1 = a + 3 /\ b + 2 = a + 4
              /\ b + 3 = a + 5
            BY <2>5
        <3> HIDE DEF b
        <3> QED BY <2>5, <3>1, <3>3, <3>4
    <2> QED BY <2>4, <2>5 DEF HeaderAt
<1>2. c \in b..Len(W) /\ c - b >= 3 /\ c - b \in Nat
    BY <1>1
<1>3. /\ m \in Seq(Tokens) /\ Len(m) = c - b /\ m[1] = t /\ m[2] = "CR"
      /\ m[3] = "LF"
    <2>1. /\ m \in Seq(Tokens) /\ Len(m) = c - b
          /\ \A i \in 1..c - b : m[i] = W[b + i]
        <3>1. /\ Part(W, b, c) \in Seq(Tokens) /\ Len(Part(W, b, c)) = c - b
              /\ \A i \in 1..c - b : Part(W, b, c)[i] = W[b + i]
            BY <1>2, PartOf
        <3> QED BY <1>1, <3>1
    <2>2. 1 \in 1..c - b /\ 2 \in 1..c - b /\ 3 \in 1..c - b
        BY <1>2
    <2> QED BY <1>1, <2>1, <2>2
<1>4. m # <<>> /\ Head(m) = t /\ t # "head"
    BY <1>2, <1>3, SizeAssumption
<1>5. IsPrefix(CRLF, Tail(m))
    <2> DEFINE x == Tail(m)
    <2>1. /\ x \in Seq(Tokens) /\ Len(x) = Len(m) - 1
          /\ \A i \in 1..Len(x) : x[i] = m[i + 1]
        BY <1>3, <1>4, HeadTailProperties
    <2> HIDE DEF x
    <2>2. Len(x) >= 2 /\ 1 \in 1..Len(x) /\ 2 \in 1..Len(x)
        BY <1>2, <1>3, <2>1
    <2>3. x[1] = "CR" /\ x[2] = "LF"
        BY <1>3, <2>1, <2>2
    <2>4. IsPrefix(CRLF, x)
        BY <2>1, <2>2, <2>3, BeginsWithCRLF
    <2> QED BY <2>4 DEF x
<1>6. m[2] # "LF" /\ ~IsStrictPrefix(Tail(m), CRLF)
    <2>1. Len(Tail(m)) = Len(m) - 1
        BY <1>3, <1>4, HeadTailProperties
    <2>2. Len(CRLF) = 2
        BY DEF CRLF
    <2>3. ~IsPrefix(Tail(m), CRLF) \/ Tail(m) = CRLF
        <3>1. ASSUME IsPrefix(Tail(m), CRLF), IsPrefix(CRLF, Tail(m))
              PROVE  Tail(m) = CRLF
            <4> DEFINE x == Tail(m)
            <4>1. x \in Seq(Tokens) /\ Len(x) = 2
                <5>1. Len(x) <= 2
                    BY <2>2, <3>1 DEF IsPrefix
                <5>2. Len(x) >= 2
                    BY <2>2, <3>1 DEF IsPrefix
                <5>3. x \in Seq(Tokens)
                    BY <1>3, <1>4, HeadTailProperties
                <5>4. Len(x) \in Nat
                    <6> HIDE DEF x
                    <6> QED BY <5>3
                <5>5. \A i \in Nat : i <= 2 /\ i >= 2 => i = 2
                    OBVIOUS
                <5> HIDE DEF x
                <5> QED BY <5>1, <5>2, <5>3, <5>4, <5>5
            <4> HIDE DEF x
            <4>2. x[1] = "CR" /\ x[2] = "LF"
                BY <3>1, <4>1, BeginsWithCRLF DEF x
            <4>3. x = <<"CR", "LF">>
                BY <4>1, <4>2
            <4> QED BY <4>3 DEF CRLF, x
        <3> QED BY <1>5, <3>1
    <2> QED BY <1>3, <2>3 DEF IsStrictPrefix
<1>7. e = [st |-> "finished", took |-> 3]
    <2>1. httpclient_parser_execute(m) = [st |-> "finished", took |-> 3]
        BY <1>4, <1>5, <1>6, Zenon DEF httpclient_parser_execute
    <2> QED BY <1>4, <2>1 DEF execute
<1>8. Drop(m, 3) = Part(W, s, c)
    <2>1. 3 \in 0..c - b
        BY <1>2
    <2> QED BY <1>1, <1>2, <2>1, Dropped
<1> HIDE DEF e
<1>9. Finds(m, t, Part(W, s, c))
    BY <1>4, <1>7, <1>8 DEF Finds, e
<1> QED BY <1>0, <1>9

\* The pieces p of W end at the cuts; the last is at total.
CutAt(cuts, i) == IF i = 0 THEN 0 ELSE cuts[i]

Cuttings(p, cuts, total, W) ==
    /\ p \in Seq(Seq(Tokens)) /\ cuts \in Seq(Nat) /\ Len(p) = Len(cuts)
    /\ \A i \in 1..Len(cuts) :
           /\ CutAt(cuts, i - 1) < cuts[i] /\ cuts[i] <= total
           /\ p[i] = Part(W, CutAt(cuts, i - 1), cuts[i])
    /\ total = CutAt(cuts, Len(cuts)) /\ total <= Len(W)

\* No cut parts what the parser needs in one piece.
Clean(r, cuts) ==
    \A n \in Range(cuts) : n >= Needed(r) \/ ~Joined[r][n]

\* What DoRequest is to return.
Answer(r, total) ==
    IF total < Needed(r) THEN Null
    ELSE Parsed(IF r.kind = "close" THEN <<>> ELSE Body(r))

\* HttpParserResponse has read x tokens, msg is the rest of the pieces that it
\* has taken.
Stands(q, W, cuts, x) ==
    /\ q.res = NoResponse /\ q.index \in 2..Len(cuts) + 1
    /\ x \in Nat /\ x <= cuts[q.index - 1]
    /\ q.msg = Part(W, x, cuts[q.index - 1])

InHeader(q, r, cuts, x, y) ==
    /\ Stands(q, Wire[r], cuts, x) /\ q.need = NoSize
    /\ q.body = Part(Body(r), 0, y)

InData(q, r, cuts, x, s, e, y, last) ==
    /\ Stands(q, Wire[r], cuts, x) /\ q.need \in Nat
    /\ s <= x /\ x + q.need = e
    /\ q.body = Part(Body(r), 0, y - q.need)
    /\ last => q.chunks_done = TRUE
    /\ ~last => q.chunks_done = FALSE

\* It has found the chunks before the k-th, or some bytes of the k-th as well.
InChunk(q, r, cuts, end, start, body, k) ==
    \/ InHeader(q, r, cuts, end[k - 1], body[k - 1])
    \/ \E x : InData(q, r, cuts, x, start[k], end[k], body[k],
                     k = Len(Chunks(r)))

Midway(q, r, cuts) ==
    \E end, start, body :
        /\ Layout(r, end, start, body)
        /\ \E k \in 1..Len(Chunks(r)) :
               InChunk(q, r, cuts, end, start, body, k)

Right(q, r, cuts, total) ==
    \/ q = Return(Answer(r, total))
    \/ r.kind = "chunked" /\ Midway(q, r, cuts)

\* A clean cut behind the chunks before the k-th is behind the next header.
LEMMA CleanCut ==
    ASSUME NEW r \in Responses, r.kind = "chunked", NEW end, NEW start,
           NEW body, Layout(r, end, start, body),
           NEW cuts, cuts \in Seq(Nat), Clean(r, cuts),
           NEW k \in 1..Len(Chunks(r)), NEW i \in 1..Len(cuts),
           end[k - 1] < cuts[i]
    PROVE  start[k] <= cuts[i]
<1> DEFINE n == Len(Chunks(r))
           c == cuts[i]
<1>1. c \in Nat /\ c \in Range(cuts)
    BY DEF Range
<1>2. /\ end[k - 1] \in Nat /\ start[k] \in Nat
      /\ \A j \in end[k - 1] + 1..start[k] - 1 : Joined[r][j] = TRUE
    BY DEF Layout, ChunkAt
<1>3. n \in 1..n /\ end[n] \in Nat
    <2>1. n \in Nat /\ n >= 1
        BY ChunksOf DEF AllChunks
    <2>2. n \in 1..n
        BY <2>1
    <2> QED BY <2>2 DEF Layout, ChunkAt
<1>4. Needed(r) = end[n]
    <2>1. Needed(r) = Len(Wire[r]) - 2
        BY DEF Needed
    <2> QED BY <1>3, <2>1 DEF Layout
<1>5. start[k] <= end[n]
    <2>1. start[k] <= end[k] /\ end[k] <= end[n]
        BY LayoutUp
    <2>2. end[k] \in Nat
        BY DEF Layout, ChunkAt
    <2> QED BY <1>2, <1>3, <2>1, <2>2
<1>6. c >= end[n] \/ ~Joined[r][c]
    BY <1>1, <1>4 DEF Clean
<1> HIDE DEF c, n
<1>7. CASE c >= end[n]
    BY <1>1, <1>2, <1>3, <1>5, <1>7 DEF c
<1>8. CASE ~Joined[r][c]
    <2>1. ~(c \in end[k - 1] + 1..start[k] - 1)
        BY <1>2, <1>8, Zenon
    <2> QED BY <1>1, <1>2, <2>1 DEF c
<1> QED BY <1>6, <1>7, <1>8

\* The parser looks for the header of the k-th chunk.
LEMMA SizeRead ==
    ASSUME NEW r \in Responses, r.kind = "chunked", NEW end, NEW start,
           NEW body, Layout(r, end, start, body),
           NEW p, NEW cuts, NEW total, Cuttings(p, cuts, total, Wire[r]),
           Clean(r, cuts), NEW k \in 1..Len(Chunks(r)),
           NEW q, InHeader(q, r, cuts, end[k - 1], body[k - 1])
    PROVE  Right(chunkHeader(q, p), r, cuts, total)
<1> DEFINE W == Wire[r]
           B == Body(r)
           n == Len(Chunks(r))
           d == Len(Chunks(r)[k])
           x == end[k - 1]
           s == start[k]
           i == q.index
           c == cuts[i - 1]
           v == chunkHeader(q, p)
<1>1. /\ x \in Nat /\ s \in Nat /\ end[k] \in Nat /\ body[k - 1] \in Nat
      /\ body[k] \in Nat /\ d \in Nat /\ end[k] = s + d
      /\ body[k] = body[k - 1] + d /\ HeaderAt(W, x, s, SizeToken(d))
    BY DEF Layout, ChunkAt
<1>2. W \in Seq(Tokens) /\ B \in Seq(Bytes) /\ Len(W) = end[n] + 2
    BY DEF Layout, Begins
<1>3. /\ p \in Seq(Seq(Tokens)) /\ cuts \in Seq(Nat) /\ Len(p) = Len(cuts)
      /\ total = CutAt(cuts, Len(cuts)) /\ total <= Len(W)
    BY DEF Cuttings
<1>4. ASSUME NEW j \in 1..Len(cuts)
      PROVE  /\ CutAt(cuts, j - 1) < cuts[j] /\ cuts[j] <= total
             /\ p[j] = Part(W, CutAt(cuts, j - 1), cuts[j])
    BY DEF Cuttings
<1>5. /\ q.res = NoResponse /\ i \in 2..Len(cuts) + 1 /\ x <= c
      /\ q.msg = Part(W, x, c) /\ q.need = NoSize
      /\ q.body = Part(B, 0, body[k - 1])
    BY DEF InHeader, Stands
<1>6. x < end[n] /\ s <= end[k] /\ end[k] <= end[n] /\ end[n] \in Nat
    <2>1. x < s /\ s <= end[k] /\ end[k] <= end[n]
        BY LayoutUp
    <2>2. n \in 1..n
        BY ChunksOf DEF AllChunks
    <2>3. end[n] \in Nat
        BY <2>2 DEF Layout, ChunkAt
    <2> QED BY <1>1, <2>1, <2>3
<1>7. Needed(r) = end[n]
    <2>1. Needed(r) = Len(W) - 2
        BY DEF Needed
    <2> HIDE DEF W, n
    <2> QED BY <1>2, <1>6, <2>1
<1>8. /\ SizeToken(d) \in DOMAIN Size /\ Size[SizeToken(d)] = d
      /\ d = 0 <=> k = n
    <2>1. AllChunks(r.chunks, Chunks(r), n)
        BY ChunksOf
    <2>2. k # n => k \in 1..n - 1
        BY <2>1 DEF AllChunks
    <2> QED BY <2>1, <2>2 DEF AllChunks
<1> HIDE DEF W, B, n, d, x, s, i, c
<1>9. i - 1 \in 1..Len(cuts) /\ i \in Nat /\ i >= 2 /\ Len(cuts) \in Nat
      /\ c \in Nat /\ c = CutAt(cuts, i - 1) /\ c <= total
    <2>1. Len(cuts) \in Nat
        BY <1>3
    <2>2. i - 1 \in 1..Len(cuts) /\ i \in Nat /\ i >= 2 /\ i - 1 # 0
        BY <1>5, <2>1
    <2>3. c \in Nat
        BY <1>3, <2>2 DEF c
    <2> QED BY <1>4, <2>1, <2>2, <2>3 DEF c, CutAt
<1>10. CASE i > Len(p) /\ q.msg = <<>>
    <2>1. i = Len(cuts) + 1 /\ total = c
        <3>1. i = Len(cuts) + 1 /\ i - 1 = Len(cuts)
            BY <1>3, <1>5, <1>9, <1>10
        <3> QED BY <1>3, <1>9, <3>1
    <2>2. c \in x..Len(W)
        BY <1>1, <1>2, <1>3, <1>5, <1>6, <1>9, <2>1
    <2>3. Len(Part(W, x, c)) = c - x
        BY <1>1, <1>2, <2>2, PartOf
    <2>4. c = x
        <3>1. Len(Part(W, x, c)) = 0
            BY <1>5, <1>10
        <3> QED BY <1>1, <1>9, <2>3, <3>1
    <2>5. total < Needed(r)
        BY <1>6, <1>7, <2>1, <2>4
    <2>6. Answer(r, total) = Null
        BY <2>5 DEF Answer
    <2>7. v = Return(Null)
        <3>1. i > Len(p) /\ ~(i <= Len(p)) /\ ~(q.msg # <<>>)
            BY <1>3, <1>9, <1>10
        <3> QED BY <1>10, <3>1, Zenon DEF chunkHeader, i
    <2> QED BY <2>6, <2>7 DEF Right
<1>11. ASSUME NEW i2 \in 2..Len(cuts) + 1,
              x < cuts[i2 - 1], cuts[i2 - 1] <= Len(W)
       PROVE  Right(chunkSize(trimmed(Part(W, x, cuts[i2 - 1])), i2, q.body),
                    r, cuts, total)
    <2> DEFINE c2 == cuts[i2 - 1]
               m == trimmed(Part(W, x, c2))
               w == chunkSize(m, i2, q.body)
    <2>0. i2 - 1 \in 1..Len(cuts)
        BY <1>9
    <2>1. i2 - 1 \in 1..Len(cuts) /\ c2 \in Nat
        BY <1>3, <1>11, <2>0
    <2>2. s <= c2
        BY <1>3, <1>11, <2>1, CleanCut DEF x, s
    <2> DEFINE e == execute(m)
               t == SizeToken(d)
    <2>3. e.st = "finished" /\ Head(m) = t /\ Drop(m, e.took) = Part(W, s, c2)
        <3>1. t \in DOMAIN Size /\ HeaderAt(W, x, s, t) /\ c2 <= Len(W)
            BY <1>1, <1>8, <1>11
        <3> HIDE DEF t, c2
        <3>2. Finds(m, t, Part(W, s, c2))
            BY <1>1, <1>2, <2>1, <2>2, <3>1, HeaderRead
        <3> QED BY <3>2 DEF Finds
    <2> DEFINE msg == Part(W, s, c2)
               b == Part(B, 0, body[k - 1])
    <2>4. Size[Head(m)] = d
        BY <1>8, <2>3
    <2>5. w = Locals(i2, Drop(m, e.took), q.body, Size[Head(m)],
                     Size[Head(m)] = 0)
        <3>1. e.st = "finished"
            BY <2>3
        <3> HIDE DEF e
        <3>2. ~(e.st = "throws") /\ ~(e.st = "error") /\ ~(e.st = "more")
            BY <3>1
        <3> QED BY <3>1, <3>2, Zenon DEF e, chunkSize
    <2>6. w = Locals(i2, msg, b, d, d = 0)
        BY <1>5, <2>3, <2>4, <2>5
    <2> HIDE DEF msg, b, w, c2
    <2>7. /\ w.res = NoResponse /\ w.index = i2 /\ w.msg = msg /\ w.body = b
          /\ w.need = d /\ w.chunks_done = (d = 0)
        BY <2>6, Zenon DEF Locals
    <2>8. Stands(w, W, cuts, s)
        BY <1>1, <2>2, <2>7 DEF Stands, msg, c2
    <2>9. /\ w.need \in Nat /\ s <= s /\ s + w.need = end[k]
          /\ body[k] - w.need = body[k - 1]
        BY <1>1, <2>7
    <2>10. w.body = Part(B, 0, body[k] - w.need)
        BY <2>7, <2>9 DEF b
    <2>11. /\ k = n => w.chunks_done = TRUE
           /\ ~(k = n) => w.chunks_done = FALSE
        BY <1>8, <2>7, Zenon
    <2>12. InData(w, r, cuts, s, s, end[k], body[k], k = n)
        BY <2>8, <2>9, <2>10, <2>11 DEF InData, W, B
    <2>13. InChunk(w, r, cuts, end, start, body, k)
        BY <2>12 DEF InChunk, s, n
    <2>14. Midway(w, r, cuts)
        BY <2>13 DEF Midway
    <2>15. Right(w, r, cuts, total)
        BY <2>14 DEF Right
    <2> QED BY <2>15 DEF w, c2
<1>12. CASE i > Len(p) /\ ~(q.msg = <<>>)
    <2>1. i = Len(cuts) + 1 /\ total = c
        <3>1. i = Len(cuts) + 1 /\ i - 1 = Len(cuts)
            BY <1>3, <1>5, <1>9, <1>12
        <3> QED BY <1>3, <1>9, <3>1
    <2>2. c \in x..Len(W)
        BY <1>1, <1>2, <1>3, <1>5, <1>6, <1>9, <2>1
    <2>3. c # x
        <3> SUFFICES ASSUME c = x PROVE FALSE
            OBVIOUS
        <3>1. Part(W, x, c) \in Seq(Tokens) /\ Len(Part(W, x, c)) = c - x
            BY <1>1, <1>2, <2>2, PartOf
        <3>2. Len(Part(W, x, c)) = 0
            BY <1>1, <3>1
        <3>3. Part(W, x, c) = <<>>
            BY <3>1, <3>2
        <3> QED BY <1>5, <1>12, <3>3
    <2>4. x < c /\ c <= Len(W)
        BY <1>1, <1>5, <1>9, <2>2, <2>3
    <2> DEFINE m == trimmed(q.msg)
    <2>5. v = chunkSize(m, i, q.body)
        <3>1. i > Len(p) /\ ~(i <= Len(p)) /\ q.msg # <<>>
            BY <1>3, <1>9, <1>12
        <3> QED BY <3>1, Zenon DEF chunkHeader, i
    <2>6. m = trimmed(Part(W, x, c))
        BY <1>5
    <2> HIDE DEF m, v
    <2>7. i \in 2..Len(cuts) + 1 /\ c = cuts[i - 1]
        BY <1>5 DEF c
    <2>8. Right(chunkSize(trimmed(Part(W, x, c)), i, q.body), r, cuts, total)
        BY <1>11, <2>4, <2>7
    <2> QED BY <2>5, <2>6, <2>8 DEF v
<1>13. CASE i <= Len(p)
    <2> DEFINE c2 == cuts[i]
               m == trimmed(q.msg \o p[i])
    <2>1. i \in 1..Len(cuts) /\ i + 1 \in 2..Len(cuts) + 1 /\ (i + 1) - 1 = i
        BY <1>3, <1>9, <1>13
    <2>2. c2 \in Nat /\ c < c2 /\ c2 <= total /\ p[i] = Part(W, c, c2)
        BY <1>3, <1>4, <1>9, <2>1
    <2>3. total \in Nat /\ x < c2 /\ c2 <= Len(W)
        <3>1. Len(cuts) \in 1..Len(cuts)
            BY <1>9, <2>1
        <3>2. total \in Nat
            BY <1>3, <3>1 DEF CutAt
        <3>3. Len(W) \in Nat
            BY <1>2
        <3>4. \A o, u, w, z, l \in Nat :
                  o <= u /\ u < w /\ w <= z /\ z <= l => o < w /\ w <= l
            OBVIOUS
        <3> HIDE DEF c2
        <3>5. /\ x \in Nat /\ c \in Nat /\ c2 \in Nat /\ x <= c /\ c < c2
              /\ c2 <= total /\ total <= Len(W)
            BY <1>1, <1>3, <1>5, <1>9, <2>2
        <3> QED BY <3>2, <3>3, <3>4, <3>5
    <2>4. q.msg \o p[i] = Part(W, x, c2)
        <3>1. c <= c2
            BY <1>9, <2>2
        <3>3. x <= c /\ c2 \in Nat /\ c \in Nat /\ x \in Nat /\ c2 <= Len(W)
            BY <1>1, <1>5, <1>9, <2>2, <2>3
        <3> HIDE DEF c2
        <3>2. Part(W, x, c) \o Part(W, c, c2) = Part(W, x, c2)
            BY <1>2, <3>1, <3>3, Glued
        <3> QED BY <1>5, <2>2, <3>2
    <2>5. v = chunkSize(m, i + 1, q.body)
        <3>1. ~(i > Len(p))
            BY <1>3, <1>9, <1>13
        <3> QED BY <1>13, <3>1, Zenon DEF chunkHeader, i
    <2>6. m = trimmed(Part(W, x, c2))
        BY <2>4
    <2> HIDE DEF m, v
    <2>7. c2 = cuts[(i + 1) - 1]
        BY <2>1
    <2> HIDE DEF c2
    <2> DEFINE i2 == i + 1
    <2>8. i2 \in 2..Len(cuts) + 1 /\ c2 = cuts[i2 - 1]
        BY <2>1, <2>7
    <2> HIDE DEF i2
    <2>9. Right(chunkSize(trimmed(Part(W, x, c2)), i2, q.body), r, cuts, total)
        BY <1>11, <2>3, <2>8
    <2> QED BY <2>5, <2>6, <2>9 DEF v, i2
<1>14. i > Len(p) \/ i <= Len(p)
    BY <1>3, <1>9
<1> QED BY <1>10, <1>12, <1>13, <1>14

\* Bytes that are on the wire as in the body are taken over to the body.
Agree(W, x, c, B, b, e) ==
    e = b + (c - x) /\ \A j \in 1..c - x : W[x + j] = B[b + j]

LEMMA Grows ==
    ASSUME NEW U, NEW W \in Seq(U), NEW V, NEW B \in Seq(V), NEW b \in Nat,
           NEW x \in Nat, NEW c \in Nat, x <= c, c <= Len(W), NEW e \in Nat,
           e <= Len(B), Agree(W, x, c, B, b, e)
    PROVE  Part(B, 0, b) \o Part(W, x, c) = Part(B, 0, e)
<1>1. c \in Nat /\ x <= c /\ c <= Len(W) /\ b <= e /\ e - b = c - x
      /\ e \in b..Len(B) /\ Len(W) \in Nat /\ Len(B) \in Nat
      /\ c \in x..Len(W)
    BY DEF Agree
<1> DEFINE w == Part(W, x, c)
<1>2. w \in Seq(U) /\ Len(w) = c - x /\ \A i \in 1..c - x : w[i] = W[x + i]
    BY <1>1, PartOf
<1> HIDE DEF w
<1>3. Len(w) = e - b /\ \A i \in 1..e - b : w[i] = B[b + i]
    BY <1>1, <1>2 DEF Agree
<1>4. w = Part(B, b, e)
    BY <1>1, <1>2, <1>3, IsPart
<1>5. Part(B, 0, b) \o Part(B, b, e) = Part(B, 0, e)
    <2>1. /\ B \in Seq(V) /\ 0 \in Nat /\ b \in Nat /\ e \in Nat
          /\ 0 <= b /\ b <= e /\ e <= Len(B)
        BY <1>1
    <2> QED BY ONLY <2>1, Glued
<1> QED BY <1>4, <1>5 DEF w

\* The parser is in the bytes of the k-th chunk.
LEMMA BytesRead ==
    ASSUME NEW r \in Responses, r.kind = "chunked", NEW end, NEW start,
           NEW body, Layout(r, end, start, body),
           NEW p, NEW cuts, NEW total, Cuttings(p, cuts, total, Wire[r]),
           NEW k \in 1..Len(Chunks(r)), NEW q, NEW x,
           InData(q, r, cuts, x, start[k], end[k], body[k],
                  k = Len(Chunks(r)))
    PROVE  Right(chunkData(q, p), r, cuts, total)
<1> DEFINE W == Wire[r]
           B == Body(r)
           n == Len(Chunks(r))
           d == Len(Chunks(r)[k])
           s == start[k]
           e == end[k]
           b == body[k - 1]
           y == body[k]
           i == q.index
           c == cuts[i - 1]
           m == q.need
           v == chunkData(q, p)
           taken == q.body \o SubSeq(q.msg, 1, q.need)
<1>1. /\ s \in Nat /\ e \in Nat /\ b \in Nat /\ y \in Nat /\ d \in Nat
      /\ e = s + d /\ y = b + d /\ \A j \in 1..d : W[s + j] = B[b + j]
    BY DEF Layout, ChunkAt
<1>2. W \in Seq(Tokens) /\ B \in Seq(Bytes) /\ Len(W) = end[n] + 2
      /\ body[n] = Len(B)
    BY DEF Layout, Begins
<1>3. /\ p \in Seq(Seq(Tokens)) /\ cuts \in Seq(Nat) /\ Len(p) = Len(cuts)
      /\ total = CutAt(cuts, Len(cuts)) /\ total <= Len(W)
    BY DEF Cuttings
<1>4. ASSUME NEW j \in 1..Len(cuts)
      PROVE  /\ CutAt(cuts, j - 1) < cuts[j] /\ cuts[j] <= total
             /\ p[j] = Part(W, CutAt(cuts, j - 1), cuts[j])
    BY DEF Cuttings
<1>5. /\ q.res = NoResponse /\ i \in 2..Len(cuts) + 1 /\ x \in Nat /\ x <= c
      /\ q.msg = Part(W, x, c) /\ m \in Nat /\ s <= x /\ x + m = e
      /\ q.body = Part(B, 0, y - m)
      /\ (k = n => q.chunks_done = TRUE)
      /\ (~(k = n) => q.chunks_done = FALSE)
    BY DEF InData, Stands
<1>6. n \in 1..n /\ e <= end[n] /\ end[n] \in Nat /\ y <= Len(B)
    <2>1. e <= end[n] /\ y <= body[n]
        BY LayoutUp
    <2>2. n \in 1..n
        BY ChunksOf DEF AllChunks
    <2>3. end[n] \in Nat
        BY <2>2 DEF Layout, ChunkAt
    <2> QED BY <1>2, <2>1, <2>2, <2>3
<1>7. Needed(r) = end[n]
    <2>1. Needed(r) = Len(W) - 2
        BY DEF Needed
    <2> HIDE DEF W, n
    <2> QED BY <1>2, <1>6, <2>1
<1>8. k \in 1..n
    OBVIOUS
<1> HIDE DEF W, B, n, d, s, e, b, y, i, c, m
<1>9. i - 1 \in 1..Len(cuts) /\ i \in Nat /\ i >= 2 /\ Len(cuts) \in Nat
      /\ c \in Nat /\ c = CutAt(cuts, i - 1) /\ c <= total /\ total \in Nat
    <2>1. Len(cuts) \in Nat
        BY <1>3
    <2>2. i - 1 \in 1..Len(cuts) /\ i \in Nat /\ i >= 2 /\ i - 1 # 0
          /\ Len(cuts) \in 1..Len(cuts) /\ Len(cuts) # 0
        BY <1>5, <2>1
    <2>3. c \in Nat /\ cuts[Len(cuts)] \in Nat
        BY <1>3, <2>2 DEF c
    <2> QED BY <1>3, <1>4, <2>1, <2>2, <2>3 DEF c, CutAt
<1>10. Len(W) \in Nat /\ Len(B) \in Nat /\ c \in x..Len(W)
    <2>1. Len(W) \in Nat /\ Len(B) \in Nat
        BY <1>2
    <2>2. \A u, w, z, l \in Nat : u <= w /\ w <= z /\ z <= l => w \in u..l
        OBVIOUS
    <2> QED BY <1>3, <1>5, <1>9, <2>1, <2>2
<1>11. Len(q.msg) = c - x
    <2>1. W \in Seq(Tokens) /\ x \in Nat /\ c \in x..Len(W)
        BY <1>2, <1>5, <1>10
    <2>2. Len(Part(W, x, c)) = c - x
        BY ONLY <2>1, PartOf
    <2> QED BY <1>5, <2>2
\* What is taken from x to z.
<1>12. ASSUME NEW z \in Nat, x <= z, z <= e, z <= Len(W)
       PROVE  Part(B, 0, y - m) \o Part(W, x, z) = Part(B, 0, y - (e - z))
    <2> DEFINE o == y - m
               f == y - (e - z)
    <2>1. /\ o \in Nat /\ f \in Nat /\ f = o + (z - x) /\ f <= Len(B)
          /\ z \in x..Len(W)
        <3>1. \A S, X, D, M, b1, Z, LB : 
                  /\ S \in Nat /\ X \in Nat /\ D \in Nat /\ M \in Nat
                  /\ b1 \in Nat /\ Z \in Nat /\ LB \in Nat
                  /\ S <= X /\ X + M = S + D /\ X <= Z /\ Z <= S + D
                  /\ b1 + D <= LB
                  => /\ (b1 + D) - M \in Nat
                     /\ (b1 + D) - ((S + D) - Z) \in Nat
                     /\ (b1 + D) - ((S + D) - Z) = ((b1 + D) - M) + (Z - X)
                     /\ (b1 + D) - ((S + D) - Z) <= LB
            OBVIOUS
        <3>2. z \in x..Len(W)
            BY <1>5, <1>10, <1>12
        <3>3. /\ s \in Nat /\ x \in Nat /\ d \in Nat /\ m \in Nat /\ b \in Nat
              /\ z \in Nat /\ Len(B) \in Nat /\ s <= x /\ x + m = s + d
              /\ x <= z /\ z <= s + d /\ b + d <= Len(B)
            BY <1>1, <1>5, <1>6, <1>10, <1>12
        <3>4. o = (b + d) - m /\ f = (b + d) - ((s + d) - z)
            BY <1>1
        <3> HIDE DEF o, f
        <3> QED BY <3>1, <3>2, <3>3, <3>4
    <2>2. ASSUME NEW j \in 1..z - x PROVE W[x + j] = B[o + j]
        <3> DEFINE g == (x - s) + j
        <3>1. g \in 1..d /\ s + g = x + j /\ b + g = o + j
            <4>1. \A S, X, D, M, b1, Z, j1 : 
                      /\ S \in Nat /\ X \in Nat /\ D \in Nat /\ M \in Nat
                      /\ b1 \in Nat /\ Z \in Nat /\ j1 \in 1..Z - X
                      /\ S <= X /\ X + M = S + D /\ X <= Z /\ Z <= S + D
                      => /\ (X - S) + j1 \in 1..D
                         /\ S + ((X - S) + j1) = X + j1
                         /\ b1 + ((X - S) + j1) = ((b1 + D) - M) + j1
                OBVIOUS
            <4>2. /\ s \in Nat /\ x \in Nat /\ d \in Nat /\ m \in Nat
                  /\ b \in Nat /\ s <= x /\ x + m = s + d /\ x <= z
                  /\ z <= s + d
                BY <1>1, <1>5, <1>12
            <4>3. o = (b + d) - m
                BY <1>1
            <4> HIDE DEF o
            <4> QED BY <4>1, <4>2, <4>3
        <3> HIDE DEF g
        <3>2. W[s + g] = B[b + g]
            BY <1>1, <3>1
        <3> QED BY <3>1, <3>2
    <2> HIDE DEF o, f
    <2>3. Part(B, 0, o) \o Part(W, x, z) = Part(B, 0, f)
        <3>1. Agree(W, x, z, B, o, f)
            BY <2>1, <2>2 DEF Agree
        <3>2. /\ W \in Seq(Tokens) /\ B \in Seq(Bytes) /\ o \in Nat
              /\ x \in Nat /\ z \in Nat /\ x <= z /\ z <= Len(W)
              /\ f \in Nat /\ f <= Len(B)
            BY <1>2, <1>5, <1>12, <2>1
        <3> QED BY ONLY <3>1, <3>2, Grows
    <2> QED BY <2>3 DEF o, f
<1>13. CASE m <= Len(q.msg)
    <2>1. e \in x..c /\ e <= Len(W) /\ e <= c
        <3>1. \A u, w, z, l, o \in Nat :
                  u + w = z /\ l \in u..o /\ w <= l - u =>
                      z \in u..l /\ z <= o /\ z <= l
            OBVIOUS
        <3>2. /\ x \in Nat /\ m \in Nat /\ e \in Nat /\ c \in Nat
              /\ Len(W) \in Nat /\ x + m = e /\ c \in x..Len(W)
              /\ m <= c - x
            BY <1>1, <1>5, <1>9, <1>10, <1>11, <1>13
        <3> QED BY ONLY <3>1, <3>2
    <2>2. SubSeq(q.msg, 1, m) = Part(W, x, e) /\ Drop(q.msg, m) = Part(W, e, c)
        <3>1. m \in 0..c - x /\ e = x + m
            BY <1>5, <1>9, <1>11, <1>13
        <3> QED BY <1>2, <1>5, <1>10, <3>1, Dropped
    <2>3. taken = Part(B, 0, y)
        <3>1. Part(B, 0, y - m) \o Part(W, x, e) = Part(B, 0, y - (e - e))
            BY <1>1, <1>5, <1>12, <2>1
        <3>2. y - (e - e) = y
            BY <1>1
        <3> QED BY <1>5, <2>2, <3>1, <3>2 DEF m
    <2>4. CASE k = n
        <3>1. v = Return(Parsed(taken))
            <4>1. q.need <= Len(q.msg) /\ q.chunks_done
                BY <1>5, <1>13, <2>4 DEF m
            <4>2. ~(q.need > Len(q.msg))
                BY <1>5, <1>9, <1>11, <1>13 DEF m
            <4> QED BY <4>1, <4>2, Zenon DEF chunkData
        <3>2. total >= Needed(r)
            BY <1>7, <1>9, <2>1, <1>1, <2>4 DEF e
        <3>3. Part(B, 0, y) = B
            <4>1. y = Len(B)
                BY <1>2, <2>4 DEF y
            <4>2. 0 \in Nat /\ Len(B) \in 0..Len(B) /\ Len(B) = Len(B) - 0
                BY <1>10
            <4>3. \A g \in 1..Len(B) - 0 : B[g] = B[0 + g]
                BY <1>10
            <4>4. B = Part(B, 0, Len(B))
                BY <1>2, <4>2, <4>3, IsPart
            <4> QED BY <4>1, <4>4
        <3>4. Answer(r, total) = Parsed(B)
            <4>1. ~(total < Needed(r))
                BY <1>6, <1>7, <1>9, <3>2
            <4>2. ~(r.kind = "close")
                OBVIOUS
            <4> QED BY <4>1, <4>2 DEF Answer, B
        <3> QED BY <2>3, <3>1, <3>3, <3>4 DEF Right
    <2>5. CASE k # n
        <3>1. v = Locals(i, Drop(q.msg, m), taken, NoSize, FALSE)
            <4>1. q.need <= Len(q.msg) /\ ~q.chunks_done
                BY <1>5, <1>13, <2>5 DEF m
            <4>2. ~(q.need > Len(q.msg))
                BY <1>5, <1>9, <1>11, <1>13 DEF m
            <4> QED BY <4>1, <4>2, Zenon DEF chunkData, i, m
        <3>2. v = Locals(i, Part(W, e, c), Part(B, 0, y), NoSize, FALSE)
            BY <2>2, <2>3, <3>1
        <3> HIDE DEF v
        <3>3. /\ v.res = NoResponse /\ v.index = i /\ v.msg = Part(W, e, c)
              /\ v.body = Part(B, 0, y) /\ v.need = NoSize
            BY <3>2, Zenon DEF Locals
        <3>4. Stands(v, W, cuts, e)
            BY <1>1, <1>5, <2>1, <3>3 DEF Stands, c
        <3>5. InHeader(v, r, cuts, e, y)
            BY <3>3, <3>4 DEF InHeader, W, B
        <3> DEFINE k2 == k + 1
        <3>6. k2 \in 1..n /\ k2 - 1 = k
            BY <1>6, <1>8, <2>5
        <3> HIDE DEF k2
        <3>7. InChunk(v, r, cuts, end, start, body, k2)
            BY <3>5, <3>6 DEF InChunk, e, y
        <3>8. Midway(v, r, cuts)
            BY <3>6, <3>7 DEF Midway, n
        <3> QED BY <3>8 DEF Right, v
    <2> QED BY <2>4, <2>5
<1>14. CASE ~(m <= Len(q.msg))
    <2>1. q.need > Len(q.msg) /\ c < e
        <3>1. \A u, w, z, l \in Nat :
                  u + w = z /\ ~(w <= l - u) => w > l - u /\ l < z
            OBVIOUS
        <3>2. /\ x \in Nat /\ m \in Nat /\ e \in Nat /\ c \in Nat
              /\ x + m = e /\ ~(m <= c - x)
            BY <1>1, <1>5, <1>9, <1>11, <1>14
        <3>3. m > c - x /\ c < e
            BY ONLY <3>1, <3>2
        <3> QED BY <1>11, <3>3 DEF m
    <2>2. CASE i > Len(p)
        <3>1. v = Return(Null)
            <4>1. ~(i <= Len(p))
                BY <1>3, <1>9, <2>2
            <4> QED BY <1>14, <2>1, <2>2, <4>1, Zenon DEF chunkData, i, m
        <3>2. total = c
            <4>1. i - 1 = Len(cuts)
                BY <1>3, <1>5, <1>9, <2>2
            <4> QED BY <1>3, <1>9, <4>1
        <3>3. total < Needed(r)
            BY <1>1, <1>6, <1>7, <1>9, <2>1, <3>2
        <3>4. Answer(r, total) = Null
            BY <3>3 DEF Answer
        <3> QED BY <3>1, <3>4 DEF Right
    <2>3. CASE i <= Len(p)
        <3> DEFINE i2 == i + 1
                   c2 == cuts[i]
                   m2 == m - Len(q.msg)
        <3>1. i \in 1..Len(cuts) /\ i2 \in 2..Len(cuts) + 1 /\ i2 - 1 = i
            BY <1>3, <1>9, <2>3
        <3>2. c2 \in Nat /\ c < c2 /\ p[i] = Part(W, c, c2)
            <4>1. c2 \in Nat
                BY <1>3, <3>1
            <4>2. /\ CutAt(cuts, i - 1) < c2
                  /\ p[i] = Part(W, CutAt(cuts, i - 1), c2)
                BY <1>4, <3>1
            <4> HIDE DEF c2
            <4> QED BY <1>9, <4>1, <4>2
        <3>3. /\ m2 \in Nat /\ c + m2 = e /\ s <= c /\ e - c = m2
              /\ m2 = m - (c - x)
            <4>1. \A u, w, z, l, o \in Nat :
                      u + w = z /\ o <= u /\ u <= l /\ l < z =>
                          /\ w - (l - u) \in Nat /\ l + (w - (l - u)) = z
                          /\ o <= l /\ z - l = w - (l - u)
                OBVIOUS
            <4>2. /\ x \in Nat /\ m \in Nat /\ e \in Nat /\ c \in Nat
                  /\ s \in Nat /\ x + m = e /\ s <= x /\ x <= c /\ c < e
                BY <1>1, <1>5, <1>9, <2>1
            <4>3. m2 = m - (c - x)
                BY <1>11
            <4> HIDE DEF m2
            <4> QED BY ONLY <4>1, <4>2, <4>3
        <3>4. v = Locals(i2, p[i], q.body \o q.msg, m2, q.chunks_done)
            <4>1. ~(i > Len(p))
                BY <1>3, <1>9, <2>3
            <4> QED BY <1>14, <2>1, <2>3, <4>1, Zenon DEF chunkData, i, m
        <3>5. q.body \o q.msg = Part(B, 0, y - m2)
            <4>1. x <= c /\ c <= e /\ c <= Len(W) /\ c \in Nat
                <5>1. \A w, z \in Nat : w < z => w <= z
                    OBVIOUS
                <5>2. c \in x..Len(W) => x <= c /\ c <= Len(W)
                    OBVIOUS
                <5> QED BY <1>1, <1>9, <1>10, <2>1, <5>1, <5>2
            <4>2. Part(B, 0, y - m) \o Part(W, x, c) = Part(B, 0, y - (e - c))
                BY <1>12, <4>1
            <4> QED BY <1>5, <3>3, <4>2
        <3> HIDE DEF v, i2, c2, m2
        <3>6. /\ v.res = NoResponse /\ v.index = i2 /\ v.msg = p[i]
              /\ v.body = q.body \o q.msg /\ v.need = m2
              /\ v.chunks_done = q.chunks_done
            BY <3>4, Zenon DEF Locals
        <3>7. c <= cuts[i2 - 1] /\ c2 = cuts[i2 - 1]
            BY <1>9, <3>1, <3>2 DEF c2
        <3>8. Stands(v, W, cuts, c)
            BY <1>9, <3>1, <3>2, <3>6, <3>7 DEF Stands
        <3>9. InData(v, r, cuts, c, s, e, y, k = n)
            BY <1>5, <3>3, <3>5, <3>6, <3>8 DEF InData, W, B
        <3>10. InChunk(v, r, cuts, end, start, body, k)
            BY <3>9 DEF InChunk, s, e, y, n
        <3>11. Midway(v, r, cuts)
            BY <1>8, <3>10 DEF Midway, n
        <3> QED BY <3>11 DEF Right, v
    <2> QED BY <1>3, <1>9, <2>2, <2>3
<1> QED BY <1>13, <1>14

\* A response that is not chunked is its head and its body.
LEMMA Plain ==
    ASSUME NEW r \in Responses, r.kind # "chunked"
    PROVE  /\ Begins(r) /\ Len(Wire[r]) = 2 + Len(Body(r))
           /\ \A j \in 1..Len(Body(r)) : Wire[r][2 + j] = Body(r)[j]
<1> DEFINE C == r.chunks
           n == Len(C)
           W == Wire[r]
           J == Joined[r]
           B == Body(r)
           L == [i \in 1..n |-> Len(C[i])]
           f == [i \in DOMAIN B |-> FALSE]
<1>1. C \in Seq(Seq(Bytes))
    BY ResponsesAssumption
<1>2. /\ W = <<"head", "HEAD">> \o B /\ J = <<TRUE, FALSE>> \o f
    BY DEF Wire, Joined
<1>3. B = FlattenSeq(C)
    BY DEF Body
<1> HIDE DEF C, W, J, B
<1>4. B \in Seq(Bytes)
    <2>1. /\ n \in Nat /\ \A i \in 1..n : Len(C[i]) \in Nat
          /\ \A i \in 1..n : L[i] = Len(C[i])
        BY <1>1
    <2> HIDE DEF n, L
    <2>2. PICK off : Places(off, L, n)
        BY <2>1, PlacesExist
    <2> QED BY <1>1, <1>3, <2>1, <2>2, FlattenAt DEF n
<1>5. B \in Seq(Tokens) /\ "head" \in Tokens /\ "HEAD" \in Tokens
    <2>1. Bytes \subseteq Tokens
        BY DEF Tokens
    <2>2. B = [i \in 1..Len(B) |-> B[i]] /\ \A i \in 1..Len(B) : B[i] \in Bytes
        BY <1>4
    <2>3. \A i \in 1..Len(B) : B[i] \in Tokens
        BY <2>1, <2>2
    <2>4. Len(B) \in Nat
        BY <1>4
    <2> QED BY <2>2, <2>3, <2>4 DEF Tokens
<1>6. /\ W \in Seq(Tokens) /\ Len(W) = 2 + Len(B) /\ W[1] = "head"
      /\ \A j \in 1..Len(B) : W[2 + j] = B[j]
    BY <1>2, <1>5, Headed
<1>7. J[1] = TRUE
    <2>1. f \in Seq(BOOLEAN)
        <3>1. DOMAIN B = 1..Len(B) /\ Len(B) \in Nat
            BY <1>4
        <3> QED BY <3>1
    <2> HIDE DEF f
    <2>2. TRUE \in BOOLEAN /\ FALSE \in BOOLEAN
        OBVIOUS
    <2>3. \A x, y \in BOOLEAN : \A V : V = <<x, y>> \o f => V[1] = x
        BY <2>1, Headed
    <2> QED BY <1>2, <2>2, <2>3, Zenon
<1>8. Len(W) >= 2
    <2>1. Len(B) \in Nat
        BY <1>4
    <2> QED BY <1>6, <2>1
<1>9. Begins(r)
    BY <1>4, <1>6, <1>7, <1>8, Zenon DEF Begins, W, J, B
<1> QED BY <1>6, <1>9 DEF W, B

\* The pieces after the first, put together.
LEMMA PiecesJoined ==
    ASSUME NEW W \in Seq(Tokens), NEW p, NEW cuts, NEW total,
           Cuttings(p, cuts, total, W), Len(p) > 0
    PROVE  FlattenSeq(Tail(p)) = Part(W, cuts[1], total)
<1> DEFINE F == Tail(p)
           n == Len(F)
<1>1. /\ p \in Seq(Seq(Tokens)) /\ cuts \in Seq(Nat) /\ Len(p) = Len(cuts)
      /\ total = CutAt(cuts, Len(cuts)) /\ total <= Len(W)
    BY DEF Cuttings
<1>2. ASSUME NEW j \in 1..Len(cuts)
      PROVE  /\ CutAt(cuts, j - 1) < cuts[j] /\ cuts[j] <= total
             /\ p[j] = Part(W, CutAt(cuts, j - 1), cuts[j])
    BY DEF Cuttings
<1>3. /\ F \in Seq(Seq(Tokens)) /\ n = Len(p) - 1
      /\ \A i \in 1..n : F[i] = p[i + 1]
    <2>1. p # <<>>
        <3> SUFFICES ASSUME p = <<>> PROVE FALSE
            OBVIOUS
        <3>1. Len(p) = 0
            OBVIOUS
        <3> QED BY <3>1
    <2> QED BY <1>1, <2>1, HeadTailProperties
<1> HIDE DEF F, n
<1>4. /\ Len(cuts) \in Nat /\ n \in Nat /\ Len(cuts) = n + 1
      /\ total = cuts[n + 1] /\ Len(W) \in Nat
    <2>1. Len(cuts) \in Nat /\ Len(cuts) > 0 /\ Len(W) \in Nat
        BY <1>1
    <2> QED BY <1>1, <1>3, <2>1 DEF CutAt
<1>5. ASSUME NEW i \in 1..n + 1
      PROVE  cuts[i] \in Nat /\ cuts[i] <= Len(W)
    <2>1. i \in 1..Len(cuts) /\ n + 1 \in 1..Len(cuts)
        BY <1>4
    <2>2. cuts[i] \in Nat /\ cuts[n + 1] \in Nat
        BY <1>1, <2>1
    <2>3. cuts[i] <= total
        BY <1>2, <2>1
    <2> QED BY <1>1, <1>4, <2>2, <2>3
<1>6. ASSUME NEW i \in 1..n
      PROVE  cuts[i] < cuts[i + 1] /\ F[i] = Part(W, cuts[i], cuts[i + 1])
    <2> DEFINE j == i + 1
    <2>1. j \in 1..Len(cuts) /\ j - 1 = i /\ i # 0
        BY <1>4
    <2>2. CutAt(cuts, j - 1) = cuts[i]
        BY <2>1 DEF CutAt
    <2>3. F[i] = p[j]
        BY <1>3
    <2> HIDE DEF j
    <2>4. cuts[i] < cuts[j] /\ p[j] = Part(W, cuts[i], cuts[j])
        BY <1>2, <2>1, <2>2
    <2> QED BY <2>3, <2>4 DEF j
<1>7. CASE n = 0
    <2>1. FlattenSeq(F) = <<>>
        <3>1. Len(F) = 0
            BY <1>7 DEF n
        <3>2. F = <<>>
            BY <1>3, <3>1
        <3> QED BY <3>1, <3>2, Zenon DEF FlattenSeq
    <2>2. total = cuts[1] /\ cuts[1] \in Nat /\ cuts[1] <= Len(W)
        BY <1>4, <1>5, <1>7
    <2>3. Part(W, cuts[1], total) = <<>>
        <3>1. cuts[1] \in cuts[1]..Len(W)
            BY <1>4, <2>2
        <3> DEFINE x == cuts[1]
        <3>2. x \in Nat /\ x \in x..Len(W) /\ x - x = 0
            BY <2>2, <3>1
        <3> HIDE DEF x
        <3>3. Part(W, x, x) \in Seq(Tokens) /\ Len(Part(W, x, x)) = 0
            BY <3>2, PartOf
        <3>4. Part(W, x, x) = <<>>
            BY <3>3
        <3> QED BY <2>2, <3>4 DEF x
    <2> QED BY <2>1, <2>3 DEF F
<1>8. CASE n # 0
    <2>1. n \in Nat \ {0} /\ Len(F) = n
        BY <1>4, <1>8 DEF n
    <2>2. PICK g : /\ g[1] = F[1] /\ FlattenSeq(F) = g[n]
                   /\ \A i \in 2..n : g[i] = g[i - 1] \o F[i]
        BY <2>1, FlattenDef
    <2> DEFINE S == {k \in 0..n :
                       k # 0 => /\ g[k] = Part(W, cuts[1], cuts[k + 1])
                                /\ cuts[1] <= cuts[k + 1]}
    <2>3. 0 \in S
        BY <1>4
    <2>4. ASSUME NEW k \in 1..n, k - 1 \in S PROVE k \in S
        <3>1. F[k] = Part(W, cuts[k], cuts[k + 1]) /\ cuts[k] < cuts[k + 1]
            BY <1>6
        <3>2. /\ 1 \in 1..n + 1 /\ k \in 1..n + 1 /\ k + 1 \in 1..n + 1
              /\ k \in 0..n
            BY <1>4
        <3>3. /\ cuts[1] \in Nat /\ cuts[k] \in Nat /\ cuts[k + 1] \in Nat
              /\ cuts[k + 1] <= Len(W)
            BY <1>5, <3>2
        <3>4. CASE k = 1
            BY <2>2, <3>1, <3>2, <3>3, <3>4
        <3>5. CASE k # 1
            <4> DEFINE a == cuts[1]
                       b == cuts[k]
                       c == cuts[k + 1]
            <4>1. k - 1 # 0 /\ (k - 1) + 1 = k /\ k \in 2..n
                BY <1>4, <3>5
            <4>2. g[k - 1] = Part(W, a, b) /\ a <= b
                BY <2>4, <4>1
            <4>3. g[k] = Part(W, a, b) \o Part(W, b, c)
                BY <2>2, <3>1, <4>1, <4>2
            <4>4. /\ a \in Nat /\ b \in Nat /\ c \in Nat /\ a <= b /\ b < c
                  /\ c <= Len(W)
                BY <3>1, <3>3, <4>2
            <4> HIDE DEF a, b, c
            <4>5. b <= c /\ a <= c
                BY <4>4
            <4>6. g[k] = Part(W, a, c)
                BY <4>3, <4>4, <4>5, Glued
            <4> QED BY <3>2, <4>5, <4>6 DEF a, c
        <3> QED BY <3>4, <3>5
    <2>5. n \in S
        <3> HIDE DEF S
        <3>1. n \in 0..n
            BY <1>4
        <3>2. \A m \in 1..n : m - 1 \in S => m \in S
            BY <2>4
        <3> QED BY <1>4, <2>3, <3>1, <3>2, UpTo
    <2>6. g[n] = Part(W, cuts[1], cuts[n + 1])
        BY <1>8, <2>5
    <2> QED BY <1>4, <2>2, <2>6 DEF F
<1> QED BY <1>7, <1>8

\* The head is at least two tokens long, and needed.
LEMMA HeadNeeded ==
    ASSUME NEW r \in Responses
    PROVE  Begins(r) /\ Needed(r) \in Nat /\ Needed(r) >= 2
<1>1. CASE r.kind = "chunked"
    <2>1. PICK end, start, body : Layout(r, end, start, body)
        BY <1>1, LayoutExists
    <2> DEFINE n == Len(Chunks(r))
    <2>2. n \in Nat /\ n >= 1
        BY <1>1, ChunksOf DEF AllChunks
    <2> HIDE DEF n
    <2>3. 1 \in 1..n /\ n \in 1..n /\ 1 - 1 = 0
        BY <2>2
    <2>4. /\ end[0] < start[1] /\ start[1] <= end[1] /\ end[1] <= end[n]
        BY <1>1, <2>1, <2>3, LayoutUp DEF n
    <2>5. start[1] \in Nat /\ end[1] \in Nat /\ end[n] \in Nat /\ end[0] = 2
        BY <2>1, <2>3 DEF Layout, ChunkAt, n
    <2>6. Needed(r) = Len(Wire[r]) - 2 /\ Len(Wire[r]) = end[n] + 2
        BY <1>1, <2>1 DEF Needed, Layout, n
    <2>7. Begins(r)
        BY <2>1 DEF Layout
    <2> QED BY <2>4, <2>5, <2>6, <2>7
<1>2. CASE r.kind = "length"
    <2>1. Begins(r)
        BY <1>2, Plain
    <2>2. Needed(r) = Len(Wire[r])
        BY <1>2 DEF Needed
    <2> QED BY <2>1, <2>2 DEF Begins
<1>3. CASE r.kind = "close"
    <2>1. Begins(r)
        BY <1>3, Plain
    <2>2. Needed(r) = 2
        BY <1>3 DEF Needed
    <2> QED BY <2>1, <2>2
<1> QED BY <1>1, <1>2, <1>3, ResponsesAssumption

\* The parser takes the head, which a clean cutting leaves whole.
LEMMA HeadRead ==
    ASSUME NEW r \in Responses, NEW p, NEW cuts, NEW total,
           Cuttings(p, cuts, total, Wire[r]), Clean(r, cuts), Len(p) > 0
    PROVE  Right(HttpParserResponse(r, p), r, cuts, total)
<1> DEFINE W == Wire[r]
           B == Body(r)
           c == cuts[1]
           v == HttpParserResponse(r, p)
           rest == Part(W, 2, c)
<1>1. /\ W \in Seq(Tokens) /\ B \in Seq(Bytes) /\ Len(W) \in Nat
      /\ Len(W) >= 2 /\ W[1] = "head" /\ Joined[r][1] = TRUE
      /\ Needed(r) \in Nat /\ Needed(r) >= 2 /\ Len(B) \in Nat
    <2>1. /\ W \in Seq(Tokens) /\ B \in Seq(Bytes) /\ Len(W) >= 2
          /\ W[1] = "head" /\ Joined[r][1] = TRUE
          /\ Needed(r) \in Nat /\ Needed(r) >= 2
        BY HeadNeeded, Zenon DEF Begins
    <2> HIDE DEF W, B
    <2>2. Len(W) \in Nat /\ Len(B) \in Nat
        BY <2>1
    <2> QED BY <2>1, <2>2
<1>2. /\ p \in Seq(Seq(Tokens)) /\ cuts \in Seq(Nat) /\ Len(p) = Len(cuts)
      /\ total = CutAt(cuts, Len(cuts)) /\ total <= Len(W)
    BY DEF Cuttings
<1>3. 1 \in 1..Len(cuts) /\ Len(cuts) \in 1..Len(cuts) /\ Len(cuts) # 0
      /\ 2 \in 2..Len(cuts) + 1
    <2>1. Len(cuts) \in Nat /\ Len(cuts) > 0
        BY <1>2
    <2> QED BY <2>1
<1>4. c \in Nat /\ c > 0 /\ c <= total /\ p[1] = Part(W, 0, c) /\ total \in Nat
    <2>1. /\ CutAt(cuts, 1 - 1) < c /\ c <= total
          /\ p[1] = Part(W, CutAt(cuts, 1 - 1), c)
        BY <1>3 DEF Cuttings
    <2>2. CutAt(cuts, 1 - 1) = 0
        BY DEF CutAt
    <2>3. c \in Nat /\ cuts[Len(cuts)] \in Nat
        BY <1>2, <1>3
    <2> QED BY <1>2, <1>3, <2>1, <2>2, <2>3 DEF CutAt
<1>5. c >= 2
    <2>1. c \in Range(cuts)
        BY <1>2, <1>3 DEF Range
    <2>2. c >= Needed(r) \/ ~Joined[r][c]
        BY <2>1 DEF Clean
    <2>3. c # 1 \/ c >= 2
        BY <1>1, <2>2
    <2> QED BY <1>4, <2>3
<1> HIDE DEF W, B, c
<1>6. c \in 0..Len(W) /\ c \in 2..Len(W) /\ 2 \in 0..c - 0 /\ 2 = 0 + 2
      /\ 0 \in Nat /\ 2 \in Nat /\ total >= 2 /\ total \in 2..Len(W)
    BY <1>1, <1>2, <1>4, <1>5
<1> DEFINE m == p[1]
           e == execute(m)
<1>7. /\ m \in Seq(Tokens) /\ Len(m) > 1 /\ m # <<>> /\ Head(m) = "head"
    <2> DEFINE P == Part(W, 0, c)
    <2>1. /\ P \in Seq(Tokens) /\ Len(P) = c - 0
          /\ \A i \in 1..c - 0 : P[i] = W[0 + i]
        BY <1>1, <1>6, PartOf
    <2> HIDE DEF P
    <2>2. Len(P) > 1 /\ P[1] = "head"
        <3>1. 1 \in 1..c - 0 /\ 0 + 1 = 1
            BY <1>4, <1>5
        <3> QED BY <1>1, <1>4, <1>5, <2>1, <3>1
    <2>3. P # <<>> /\ Head(P) = "head"
        BY <2>1, <2>2
    <2> QED BY <1>4, <2>1, <2>2, <2>3 DEF P
<1>8. e = [st |-> "finished", took |-> 2]
    <2>1. "head" \notin DOMAIN Size
        BY SizeAssumption
    <2>2. httpclient_parser_execute(m) = [st |-> "finished", took |-> 2]
        BY <1>7, <2>1, Zenon DEF httpclient_parser_execute
    <2> QED BY <1>7, <2>2, Zenon DEF execute
<1>9. Drop(m, e.took) = rest
    <2>1. e.took = 2
        BY <1>8
    <2>2. Drop(m, 2) = rest
        BY <1>1, <1>4, <1>6, Dropped
    <2> HIDE DEF e
    <2> QED BY <2>1, <2>2
<1>10. CASE r.kind = "chunked"
    <2>1. v = Locals(2, Drop(m, e.took), <<>>, NoSize, FALSE)
        <3>1. e.st = "finished"
            BY <1>8
        <3> HIDE DEF e
        <3>2. ~(e.st = "throws") /\ ~(e.st \notin {"throws", "finished"})
            BY <3>1
        <3> QED BY <1>10, <3>1, <3>2, Zenon DEF HttpParserResponse, e
    <2>2. v = Locals(2, rest, <<>>, NoSize, FALSE)
        BY <1>9, <2>1, Zenon
    <2> HIDE DEF v
    <2>3. /\ v.res = NoResponse /\ v.index = 2 /\ v.msg = rest
          /\ v.body = <<>> /\ v.need = NoSize
        BY <2>2, Zenon DEF Locals
    <2>4. PICK end, start, body : Layout(r, end, start, body)
        BY <1>10, LayoutExists
    <2>5. 1 \in 1..Len(Chunks(r)) /\ 1 - 1 = 0 /\ end[0] = 2 /\ body[0] = 0
        BY <1>10, <2>4, ChunksOf DEF AllChunks, Layout
    <2>6. Part(B, 0, 0) = <<>>
        <3>1. 0 \in 0..Len(B) /\ 0 - 0 = 0
            BY <1>1
        <3>2. Part(B, 0, 0) \in Seq(Bytes) /\ Len(Part(B, 0, 0)) = 0
            BY <1>1, <1>6, <3>1, PartOf
        <3> QED BY <3>2
    <2>7. Stands(v, W, cuts, 2)
        <3>1. 2 - 1 = 1
            OBVIOUS
        <3>2. c = cuts[2 - 1] /\ 2 <= c
            BY <1>4, <1>5, <3>1 DEF c
        <3> QED BY <1>3, <1>6, <2>3, <3>2 DEF Stands
    <2>8. InHeader(v, r, cuts, end[1 - 1], body[1 - 1])
        BY <2>3, <2>5, <2>6, <2>7 DEF InHeader, W, B
    <2>9. InChunk(v, r, cuts, end, start, body, 1)
        BY <2>8 DEF InChunk
    <2>10. Midway(v, r, cuts)
        BY <2>4, <2>5, <2>9 DEF Midway
    <2> QED BY <1>10, <2>10 DEF Right, v
<1>11. CASE r.kind # "chunked"
    <2> DEFINE all == Part(W, 2, total)
               l == getContentLength(r)
    <2>1. v = Return(lengthBody(r, Drop(m, e.took) \o FlattenSeq(Tail(p))))
        <3>1. e.st = "finished"
            BY <1>8
        <3> HIDE DEF e
        <3>2. ~(e.st = "throws") /\ ~(e.st \notin {"throws", "finished"})
            BY <3>1
        <3> QED BY <1>11, <3>1, <3>2, Zenon DEF HttpParserResponse, e
    <2>2. FlattenSeq(Tail(p)) = Part(W, c, total)
        BY <1>1, PiecesJoined DEF W, c
    <2>3. rest \o Part(W, c, total) = all
        <3>1. /\ 2 \in Nat /\ c \in Nat /\ total \in Nat
              /\ 2 <= c /\ c <= total
              /\ total <= Len(W)
            BY <1>2, <1>4, <1>5
        <3> QED BY <1>1, <3>1, Glued
    <2>4. v = Return(lengthBody(r, all))
        BY <1>9, <2>1, <2>2, <2>3, Zenon
    <2>5. Len(all) = total - 2
        <3>1. W \in Seq(Tokens) /\ 2 \in Nat /\ total \in 2..Len(W)
            BY <1>1, <1>6
        <3> QED BY ONLY <3>1, PartOf
    <2>6. Len(W) = 2 + Len(B) /\ \A j \in 1..Len(B) : W[2 + j] = B[j]
        BY <1>11, Plain DEF W, B
    <2> HIDE DEF v, all, l
    <2>7. lengthBody(r, all) = IF Len(all) < l THEN Null
                               ELSE Parsed(SubSeq(all, 1, l))
        BY DEF lengthBody, l
    <2>8. CASE r.kind = "length"
        <3>1. l = Len(B) /\ Needed(r) = Len(W)
            BY <2>8 DEF l, getContentLength, B, Needed, W
        <3>2. CASE total < Needed(r)
            <4>1. Len(all) < l
                BY <1>1, <1>4, <2>5, <2>6, <3>1, <3>2
            <4> QED BY <2>4, <2>7, <3>2, <4>1 DEF Right, Answer, v
        <3>3. CASE ~(total < Needed(r))
            <4>1. ~(Len(all) < l) /\ total = Len(W) /\ l \in 0..total - 2
                  /\ 2 + l = Len(W)
                <5>1. \A t, w, b \in Nat :
                          t <= w /\ w = 2 + b /\ ~(t < w) =>
                              /\ ~(t - 2 < b) /\ t = w /\ b \in 0..t - 2
                              /\ 2 + b = w
                    OBVIOUS
                <5>2. /\ total \in Nat /\ Len(W) \in Nat /\ l \in Nat
                      /\ total <= Len(W) /\ Len(W) = 2 + l
                      /\ ~(total < Len(W))
                    BY <1>1, <1>2, <1>4, <2>6, <3>1, <3>3
                <5>3. /\ ~(total - 2 < l) /\ total = Len(W)
                      /\ l \in 0..total - 2 /\ 2 + l = Len(W)
                    BY ONLY <5>1, <5>2
                <5> QED BY <2>5, <5>3, Zenon
            <4>2. SubSeq(all, 1, l) = all
                <5>1. all \in Seq(Tokens)
                    <6>1. W \in Seq(Tokens) /\ 2 \in Nat /\ total \in 2..Len(W)
                        BY <1>1, <1>6
                    <6> QED BY ONLY <6>1, PartOf DEF all
                <5>2. Len(all) = l /\ l \in Nat /\ l \in 0..l /\ l - 0 = l
                    BY <1>1, <2>5, <2>6, <3>1, <4>1
                <5>3. \A i \in 1..l - 0 : all[i] = all[0 + i]
                    BY <5>2
                <5>4. all = Part(all, 0, l)
                    BY <1>6, <5>1, <5>2, <5>3, IsPart
                <5> QED BY <5>4 DEF Part
            <4>3. B = Part(W, 2, Len(W))
                <5>1. Len(W) \in 2..Len(W) /\ Len(B) = Len(W) - 2
                    BY <1>1, <2>6
                <5>2. \A j \in 1..Len(W) - 2 : B[j] = W[2 + j]
                    BY <2>6, <5>1
                <5> DEFINE z == Len(W)
                           a == 2
                <5>3. /\ W \in Seq(Tokens) /\ a \in Nat /\ z \in a..Len(W)
                      /\ B \in Seq(Bytes) /\ Len(B) = z - a
                      /\ \A j \in 1..z - a : B[j] = W[a + j]
                    BY <1>1, <5>1, <5>2
                <5> HIDE DEF z, a
                <5>4. B = Part(W, a, z)
                    BY ONLY <5>3, IsPart
                <5> QED BY <5>4 DEF z, a
            <4>4. lengthBody(r, all) = Parsed(B)
                BY <2>7, <4>1, <4>2, <4>3 DEF all
            <4>5. Answer(r, total) = Parsed(B)
                <5>1. ~(r.kind = "close")
                    BY <2>8
                <5> QED BY <3>3, <5>1 DEF Answer, B
            <4> QED BY <2>4, <4>4, <4>5 DEF Right, v
        <3> QED BY <3>2, <3>3
    <2>9. CASE r.kind = "close"
        <3>1. l = 0 /\ Needed(r) = 2
            BY <2>9 DEF l, getContentLength, Needed
        <3>2. ~(Len(all) < 0) /\ ~(total < Needed(r)) /\ 0 \in 0..total - 2
              /\ 2 = 2 + 0
            <4>1. total \in Nat /\ total >= 2
                BY <1>4, <1>6
            <4>2. \A t \in Nat : t >= 2 =>
                      ~(t - 2 < 0) /\ ~(t < 2) /\ 0 \in 0..t - 2 /\ 2 = 2 + 0
                OBVIOUS
            <4>3. /\ ~(total - 2 < 0) /\ ~(total < 2)
                  /\ 0 \in 0..total - 2 /\ 2 = 2 + 0
                BY ONLY <4>1, <4>2
            <4> QED BY <2>5, <3>1, <4>3, Zenon
        <3>3. SubSeq(all, 1, 0) = Part(W, 2, 2)
            BY <1>1, <1>6, <3>2, Dropped DEF all
        <3>4. Part(W, 2, 2) = <<>>
            <4>1. 2 \in 2..Len(W) /\ 2 - 2 = 0
                BY <1>1
            <4>2. Part(W, 2, 2) \in Seq(Tokens) /\ Len(Part(W, 2, 2)) = 0
                <5>1. W \in Seq(Tokens) /\ 2 \in Nat /\ 2 \in 2..Len(W)
                    BY <1>1, <4>1
                <5>2. /\ Part(W, 2, 2) \in Seq(Tokens)
                      /\ Len(Part(W, 2, 2)) = 2 - 2
                    BY ONLY <5>1, PartOf
                <5> QED BY <4>1, <5>2
            <4> QED BY <4>2
        <3>5. lengthBody(r, all) = Parsed(<<>>)
            BY <2>7, <3>1, <3>2, <3>3, <3>4
        <3>6. Answer(r, total) = Parsed(<<>>)
            BY <2>9, <3>2 DEF Answer
        <3> QED BY <2>4, <3>5, <3>6 DEF Right, v
    <2>10. Right(v, r, cuts, total)
        BY <1>11, <2>8, <2>9, ResponsesAssumption DEF v
    <2> QED BY <2>10 DEF v
<1> QED BY <1>10, <1>11

\* A turn of the loops.
LEMMA TurnRight ==
    ASSUME NEW r \in Responses, NEW p, NEW cuts, NEW total,
           Cuttings(p, cuts, total, Wire[r]), Clean(r, cuts),
           NEW q, q.res = NoResponse, Right(q, r, cuts, total)
    PROVE  Right(IF q.need = NoSize THEN chunkHeader(q, p)
                 ELSE chunkData(q, p), r, cuts, total)
<1>1. r.kind = "chunked" /\ Midway(q, r, cuts)
    <2>1. q # Return(Answer(r, total))
        <3> SUFFICES ASSUME q = Return(Answer(r, total)) PROVE FALSE
            OBVIOUS
        <3>1. q.res = Answer(r, total)
            BY DEF Return
        <3>2. Answer(r, total).st \in {"null", "parsed"}
            BY DEF Answer, Null, Parsed
        <3>3. NoResponse.st = "none"
            BY DEF NoResponse
        <3> QED BY <3>1, <3>2, <3>3
    <2> QED BY <2>1 DEF Right
<1>2. PICK end, start, body :
          /\ Layout(r, end, start, body)
          /\ \E k \in 1..Len(Chunks(r)) :
                 InChunk(q, r, cuts, end, start, body, k)
    BY <1>1 DEF Midway
<1>3. PICK k \in 1..Len(Chunks(r)) :
          InChunk(q, r, cuts, end, start, body, k)
    BY <1>2
<1>4. CASE InHeader(q, r, cuts, end[k - 1], body[k - 1])
    <2>1. q.need = NoSize
        BY <1>4 DEF InHeader
    <2>2. Right(chunkHeader(q, p), r, cuts, total)
        BY <1>1, <1>2, <1>4, SizeRead
    <2> QED BY <2>1, <2>2
<1>5. CASE \E x : InData(q, r, cuts, x, start[k], end[k], body[k],
                         k = Len(Chunks(r)))
    <2>1. PICK x : InData(q, r, cuts, x, start[k], end[k], body[k],
                          k = Len(Chunks(r)))
        BY <1>5
    <2>2. q.need # NoSize
        BY <2>1 DEF InData, NoSize
    <2>3. Right(chunkData(q, p), r, cuts, total)
        BY <1>1, <1>2, <2>1, BytesRead
    <2> QED BY <2>2, <2>3
<1> QED BY <1>3, <1>4, <1>5 DEF InChunk

-----------------------------------------------------------------------------
(* What DoRequest returns.                                                *)

\* The caller has been, or can be, told that there is a response.
Told == cl.sem > 0 \/ caller \in {"got", "destroy", "returned"}

\* As long as every cut is clean.
Correct ==
    /\ fate # "terminated"
    /\ net.state = "parsing" =>
           Right(parse, net.response, h.cuts, net.sent)
    /\ net.state = "post" \/ Told =>
           cl.m_res = Answer(net.response, net.sent)
    /\ caller \in {"destroy", "returned"} =>
           ret = Answer(net.response, net.sent)

ResponseInv ==
    /\ OnceInv
    /\ {"m_resHttp", "m_res", "sem"} \subseteq DOMAIN cl /\ cl.sem \in Nat
    /\ Cuttings(cl.m_resHttp, h.cuts, net.sent, Wire[net.response])
    /\ net.state \in Before => h.cuts = <<>>
    /\ net.state = "parse" => Len(cl.m_resHttp) > 0
    /\ Told => net.state \in {"disconnect", "unlock", "remove", "over"}
    /\ Clean(net.response, h.cuts) => Correct

LEMMA ResponseInit == ClientInit => ResponseInv
<1> SUFFICES ASSUME ClientInit PROVE ResponseInv
    OBVIOUS
<1>1. OnceInv
    BY OnceInit
<1>2. /\ {"m_resHttp", "m_res", "sem"} \subseteq DOMAIN cl /\ cl.sem = 0
      /\ cl.m_resHttp = <<>> /\ h.cuts = <<>> /\ net.sent = 0
      /\ net.state = "none" /\ caller = "start" /\ fate = "running"
    BY DEF ClientInit
<1>3. Cuttings(<<>>, <<>>, 0, Wire[net.response])
    <2>1. Wire[net.response] \in Seq(Tokens)
        BY <1>1, HeadNeeded DEF Begins, OnceInv
    <2> DEFINE W == Wire[net.response]
    <2> HIDE DEF W
    <2>2. Len(W) \in Nat
        BY <2>1 DEF W
    <2> QED BY <2>2 DEF Cuttings, CutAt, W
<1>4. ~Told
    BY <1>2 DEF Told
<1> QED BY <1>1, <1>2, <1>3, <1>4 DEF ResponseInv, Correct

\* A step that leaves alone what has arrived.
SamePieces ==
    /\ net'.response = net.response /\ net'.sent = net.sent
    /\ h'.cuts = h.cuts /\ cl'.m_resHttp = cl.m_resHttp
    /\ DOMAIN cl' = DOMAIN cl

LEMMA PiecesStay ==
    ASSUME ResponseInv, SamePieces
    PROVE  /\ {"m_resHttp", "m_res", "sem"} \subseteq DOMAIN cl'
           /\ Cuttings(cl.m_resHttp, h.cuts, net.sent, Wire[net.response])'
           /\ Clean(net.response, h.cuts)' <=> Clean(net.response, h.cuts)
    BY DEF ResponseInv, SamePieces

\* The caller's steps.
LEMMA CallerAsks ==
    ASSUME ResponseInv, OnceInv', Caller PROVE ResponseInv'
<1>1. CASE \E c \in Connections : DoRequest(c)
    <2>1. /\ cl' = cl /\ h' = h /\ caller = "start" /\ caller' = "wait"
          /\ ret' = ret /\ fate' = fate /\ parse' = parse
          /\ net'.response = net.response /\ net'.sent = net.sent
          /\ net'.state = "queued" /\ net.state = "none"
        BY <1>1 DEF DoRequest, ResponseInv, OnceInv
    <2>2. SamePieces
        BY <2>1 DEF SamePieces
    <2>3. ~Told /\ ~Told'
        BY <2>1 DEF Told, ResponseInv
    <2>4. Correct => Correct'
        BY <2>1, <2>3 DEF Correct
    <2> QED BY <2>1, <2>2, <2>3, <2>4, PiecesStay DEF ResponseInv, Before
<1>2. CASE SemWait
    <2>1. /\ h' = h /\ net' = net /\ caller = "wait" /\ caller' = "got"
          /\ ret' = ret /\ fate' = fate /\ parse' = parse /\ cl.sem > 0
          /\ cl' = [cl EXCEPT !.sem = @ - 1]
        BY <1>2 DEF SemWait
    <2>2. /\ cl'.m_res = cl.m_res /\ cl'.m_resHttp = cl.m_resHttp
          /\ DOMAIN cl' = DOMAIN cl /\ cl'.sem = cl.sem - 1
        BY <2>1 DEF ResponseInv
    <2>3. SamePieces /\ cl'.sem \in Nat
        BY <2>1, <2>2 DEF SamePieces, ResponseInv
    <2>4. Told /\ Told'
        BY <2>1 DEF Told
    <2>5. Correct => Correct'
        BY <2>1, <2>2, <2>4 DEF Correct
    <2> QED BY <2>1, <2>2, <2>3, <2>4, <2>5, PiecesStay DEF ResponseInv
<1>3. CASE GetResponse
    <2>1. /\ h' = h /\ net' = net /\ cl' = cl /\ caller = "got"
          /\ caller' = "destroy" /\ ret' = cl.m_res /\ fate' = fate
          /\ parse' = parse
        BY <1>3 DEF GetResponse
    <2>2. SamePieces /\ Told /\ Told'
        BY <2>1 DEF SamePieces, Told
    <2>3. Correct => Correct'
        BY <2>1, <2>2 DEF Correct
    <2> QED BY <2>1, <2>2, <2>3, PiecesStay DEF ResponseInv
<1>4. CASE Destroy
    <2>1. /\ h' = h /\ net' = net /\ caller = "destroy"
          /\ caller' = "returned" /\ ret' = ret /\ parse' = parse
          /\ cl' = [cl EXCEPT !.alive = FALSE]
          /\ fate = "running" /\ fate' \in {"mutex assert", "running"}
        BY <1>4 DEF Destroy, Running
    <2>2. /\ cl'.m_res = cl.m_res /\ cl'.m_resHttp = cl.m_resHttp
          /\ DOMAIN cl' = DOMAIN cl /\ cl'.sem = cl.sem
        BY <2>1 DEF ResponseInv
    <2>3. SamePieces /\ Told /\ Told'
        BY <2>1, <2>2 DEF SamePieces, Told
    <2>4. Correct => Correct'
        BY <2>1, <2>2, <2>3 DEF Correct
    <2> QED BY <2>1, <2>2, <2>3, <2>4, PiecesStay DEF ResponseInv
<1> QED BY <1>1, <1>2, <1>3, <1>4 DEF Caller

\* The steps of the connection before anything is parsed.
LEMMA NetworkMoves ==
    ASSUME ResponseInv, OnceInv',
           StartInLoop \/ ConnectFails \/ ConnectionUp \/ ServerCloses
    PROVE  ResponseInv'
<1>1. /\ cl'.m_res = cl.m_res /\ cl'.m_resHttp = cl.m_resHttp
      /\ DOMAIN cl' = DOMAIN cl /\ cl'.sem = cl.sem
    BY DEF StartInLoop, ConnectFails, ConnectionUp, ServerCloses, ResponseInv
<1>2. /\ caller' = caller /\ ret' = ret /\ fate' = fate /\ parse' = parse
    BY DEF StartInLoop, ConnectFails, ConnectionUp, ServerCloses
<1>3. /\ net'.response = net.response /\ h'.cuts = h.cuts
    <2>1. net'.response = net.response
        BY DEF StartInLoop, ConnectFails, ConnectionUp, ServerCloses,
               ResponseInv, OnceInv
    <2>2. h' = h \/ h' = [h EXCEPT !.requests = Append(@, net.no + 1)]
        BY DEF StartInLoop, ConnectFails, ConnectionUp, ServerCloses
    <2>3. h \in [requests : Seq(Nat), cuts : Seq(Int)]
        BY DEF ResponseInv, OnceInv
    <2> QED BY <2>1, <2>2, <2>3
<1>4. /\ net.state \in Before \cup {"up"}
      /\ net'.state \in Before \cup {"up", "closed"}
      /\ net'.state \in Before => net.state \in Before
    BY DEF StartInLoop, ConnectFails, ConnectionUp, ServerCloses, Before,
           ResponseInv, OnceInv
<1>5. net'.sent = net.sent
    <2>1. CASE ConnectionUp
        <3>1. net'.sent = 0 /\ net.state \in Before
            BY <2>1 DEF ConnectionUp, ResponseInv, OnceInv, Before
        <3>2. net.sent = CutAt(h.cuts, Len(h.cuts)) /\ h.cuts = <<>>
            BY <3>1 DEF ResponseInv, Cuttings
        <3>3. Len(h.cuts) = 0
            BY <3>2
        <3> QED BY <3>1, <3>2, <3>3 DEF CutAt
    <2>2. CASE StartInLoop \/ ConnectFails \/ ServerCloses
        BY <2>2 DEF StartInLoop, ConnectFails, ServerCloses, ResponseInv,
                    OnceInv
    <2> QED BY <2>1, <2>2
<1>6. SamePieces
    BY <1>1, <1>3, <1>5 DEF SamePieces
<1>7. ~Told /\ ~Told'
    BY <1>1, <1>2, <1>4 DEF ResponseInv, Told, Before
<1>8. Correct => Correct'
    BY <1>1, <1>2, <1>4, <1>7 DEF Correct, Before, Told
<1> QED BY <1>1, <1>3, <1>4, <1>6, <1>7, <1>8, PiecesStay
        DEF ResponseInv, Before

\* One more piece.
LEMMA Arrives ==
    ASSUME ResponseInv, OnceInv', Receives PROVE ResponseInv'
<1>1. PICK k \in 1..Len(Wire[net.response]) : OnMessage(k)
    BY DEF Receives
<1> DEFINE r == net.response
           W == Wire[r]
           s == net.sent
           z == s + k
           p == cl.m_resHttp
           cuts == h.cuts
           d == Part(W, s, z)
<1>2. /\ net.state = "up" /\ z <= Len(W) /\ net' = [net EXCEPT !.sent = z]
      /\ h' = [h EXCEPT !.cuts = Append(@, z)]
      /\ cl' = [cl EXCEPT !.m_resHttp = Append(@, d)]
      /\ caller' = caller /\ parse' = parse /\ ret' = ret /\ fate' = fate
    BY <1>1 DEF OnMessage, Part
<1> HIDE DEF d, z
<1>3. /\ net'.state = "up" /\ net'.response = r /\ net'.sent = z
      /\ h'.cuts = Append(cuts, z)
    BY <1>2 DEF ResponseInv, OnceInv
<1>4. /\ cl'.m_resHttp = Append(p, d) /\ DOMAIN cl' = DOMAIN cl
      /\ cl'.m_res = cl.m_res /\ cl'.sem = cl.sem
    BY <1>2 DEF ResponseInv
<1>5. r \in Responses /\ W \in Seq(Tokens)
    BY HeadNeeded DEF Begins, ResponseInv, OnceInv
<1>6. Cuttings(p, cuts, s, W)
    BY DEF ResponseInv
<1> HIDE DEF r, W, s, p, cuts
<1>7. Cuttings(Append(p, d), Append(cuts, z), z, W)
    <2>1. /\ p \in Seq(Seq(Tokens)) /\ cuts \in Seq(Nat)
          /\ Len(p) = Len(cuts) /\ s = CutAt(cuts, Len(cuts)) /\ s <= Len(W)
        BY <1>6 DEF Cuttings
    <2>2. Len(cuts) \in Nat /\ Len(W) \in Nat
        BY <1>5, <2>1
    <2>3. s \in Nat
        <3>1. CASE Len(cuts) = 0
            BY <2>1, <3>1 DEF CutAt
        <3>2. CASE Len(cuts) # 0
            <4>1. Len(cuts) \in 1..Len(cuts)
                BY <2>2, <3>2
            <4>2. cuts[Len(cuts)] \in Nat
                BY <2>1, <4>1
            <4> QED BY <2>1, <3>2, <4>2 DEF CutAt
        <3> QED BY <3>1, <3>2
    <2>4. z \in Nat /\ s < z /\ z <= Len(W) /\ z \in s..Len(W)
        <3>1. z <= Len(W) /\ k \in 1..Len(W)
            BY <1>2 DEF W, r
        <3> QED BY <2>2, <2>3, <3>1 DEF z
    <2>5. d \in Seq(Tokens)
        BY <1>5, <2>3, <2>4, PartOf DEF d
    <2> DEFINE p2 == Append(p, d)
               c2 == Append(cuts, z)
    <2>6. /\ p2 \in Seq(Seq(Tokens)) /\ Len(p2) = Len(p) + 1
          /\ \A i \in 1..Len(p) : p2[i] = p[i]
          /\ p2[Len(p) + 1] = d
        BY <2>1, <2>5, AppendProperties
    <2>7. /\ c2 \in Seq(Nat) /\ Len(c2) = Len(cuts) + 1
          /\ \A i \in 1..Len(cuts) : c2[i] = cuts[i]
          /\ c2[Len(cuts) + 1] = z
        BY <2>1, <2>4, AppendProperties
    <2> HIDE DEF p2, c2
    <2>8. \A i \in 0..Len(cuts) : CutAt(c2, i) = CutAt(cuts, i)
        BY <2>2, <2>7 DEF CutAt
    <2>9. ASSUME NEW i \in 1..Len(c2)
          PROVE  /\ CutAt(c2, i - 1) < c2[i] /\ c2[i] <= z
                 /\ p2[i] = Part(W, CutAt(c2, i - 1), c2[i])
        <3>1. i - 1 \in 0..Len(cuts)
            BY <2>2, <2>7
        <3>2. CutAt(c2, i - 1) = CutAt(cuts, i - 1)
            BY <2>8, <3>1
        <3>3. CASE i = Len(cuts) + 1
            <4>1. c2[i] = z /\ p2[i] = d /\ i - 1 = Len(cuts)
                BY <2>1, <2>2, <2>6, <2>7, <3>3
            <4>2. CutAt(c2, i - 1) = s /\ z <= z
                BY <2>1, <2>4, <3>2, <4>1
            <4> QED BY <2>4, <4>1, <4>2 DEF d
        <3>4. CASE i # Len(cuts) + 1
            <4>1. i \in 1..Len(cuts)
                BY <2>2, <2>7, <3>4
            <4>2. c2[i] = cuts[i] /\ p2[i] = p[i] /\ cuts[i] \in Nat
                <5>1. c2[i] = cuts[i]
                    BY <2>7, <4>1
                <5>2. p2[i] = p[i]
                    <6>1. i \in 1..Len(p)
                        BY <2>1, <4>1
                    <6> QED BY <2>6, <6>1
                <5>3. cuts[i] \in Nat
                    BY <2>1, <4>1
                <5> QED BY <5>1, <5>2, <5>3
            <4>3. /\ CutAt(cuts, i - 1) < cuts[i] /\ cuts[i] <= s
                  /\ p[i] = Part(W, CutAt(cuts, i - 1), cuts[i])
                BY <1>6, <4>1 DEF Cuttings
            <4>4. cuts[i] <= z
                BY <2>3, <2>4, <4>2, <4>3
            <4> QED BY <3>2, <4>2, <4>3, <4>4
        <3> QED BY <3>3, <3>4
    <2>10. z = CutAt(c2, Len(c2))
        BY <2>2, <2>7 DEF CutAt
    <2>11. Len(p2) = Len(c2)
        BY <2>1, <2>6, <2>7
    <2>12. Cuttings(p2, c2, z, W)
        BY <2>4, <2>6, <2>7, <2>9, <2>10, <2>11 DEF Cuttings
    <2> QED BY <2>12 DEF p2, c2
<1>8. Clean(r, Append(cuts, z)) => Clean(r, cuts)
    <2>1. Range(cuts) \subseteq Range(Append(cuts, z))
        <3>1. cuts \in Seq(Nat) /\ z \in Nat
            <4>1. cuts \in Seq(Nat) /\ Append(cuts, z) \in Seq(Nat)
                BY <1>6, <1>7 DEF Cuttings
            <4>2. z \in Int
                BY <1>3 DEF OnceInv
            <4> QED BY <4>1, <4>2
        <3>2. /\ Len(Append(cuts, z)) = Len(cuts) + 1
              /\ \A i \in 1..Len(cuts) : Append(cuts, z)[i] = cuts[i]
              /\ Append(cuts, z) \in Seq(Nat)
            BY <3>1, AppendProperties
        <3> DEFINE c2 == Append(cuts, z)
        <3> HIDE DEF c2
        <3>3. /\ DOMAIN cuts = 1..Len(cuts) /\ DOMAIN c2 = 1..Len(c2)
              /\ Len(c2) = Len(cuts) + 1 /\ Len(cuts) \in Nat
              /\ \A i \in 1..Len(cuts) : c2[i] = cuts[i] /\ i \in 1..Len(c2)
            BY <3>1, <3>2 DEF c2
        <3>4. Range(cuts) \subseteq Range(c2)
            BY <3>3 DEF Range
        <3> QED BY <3>4 DEF c2
    <2> QED BY <2>1 DEF Clean
<1>9. ~Told /\ ~Told'
    BY <1>2, <1>4 DEF ResponseInv, Told
<1>10. Correct => Correct'
    BY <1>2, <1>3, <1>9 DEF Correct, Told
<1> QED BY <1>3, <1>4, <1>7, <1>8, <1>9, <1>10
        DEF ResponseInv, Before, r, W, s, p, cuts

\* The steps of the close and the parser.
LEMMA ClosesAndParses ==
    ASSUME ResponseInv, OnceInv',
           \/ ConnectionDown \/ Parse \/ ParseChunks \/ ParseReturns \/ Post
           \/ Disconnect \/ Unlock \/ RemoveConnection
    PROVE  ResponseInv'
<1> DEFINE r == net.response
           C == Clean(net.response, h.cuts)
<1>0. /\ r \in Responses
      /\ {"state", "response", "sent"} \subseteq DOMAIN net
      /\ Cuttings(cl.m_resHttp, h.cuts, net.sent, Wire[r])
    BY DEF ResponseInv, OnceInv
<1>1. CASE ConnectionDown
    <2>1. /\ net.state = "closed" /\ h' = h /\ caller' = caller /\ ret' = ret
          /\ fate' = fate /\ parse' = parse
          /\ cl' = [cl EXCEPT !.locked = TRUE, !.m_connect = FALSE]
          /\ net' = [net EXCEPT !.state = IF cl.m_resHttp = <<>> THEN "unlock"
                                          ELSE "parse"]
        BY <1>1 DEF ConnectionDown, downLocked
    <2>2. /\ cl'.m_res = cl.m_res /\ cl'.m_resHttp = cl.m_resHttp
          /\ DOMAIN cl' = DOMAIN cl /\ cl'.sem = cl.sem
        BY <2>1 DEF ResponseInv
    <2>3. /\ net'.response = net.response /\ net'.sent = net.sent
          /\ net'.state \in {"unlock", "parse"}
          /\ net'.state = "parse" => cl.m_resHttp # <<>>
        BY <1>0, <2>1
    <2>4. SamePieces
        BY <2>1, <2>2, <2>3 DEF SamePieces
    <2>5. net'.state = "parse" => Len(cl'.m_resHttp) > 0
        <3>1. cl.m_resHttp \in Seq(Seq(Tokens))
            BY <1>0 DEF Cuttings
        <3>2. \A q \in Seq(Seq(Tokens)) : q # <<>> => Len(q) > 0
            OBVIOUS
        <3> QED BY <2>2, <2>3, <3>1, <3>2
    <2>6. ~Told /\ ~Told'
        BY <2>1, <2>2 DEF ResponseInv, Told
    <2>7. Correct => Correct'
        BY <2>1, <2>3, <2>6 DEF Correct
    <2> QED BY <2>2, <2>3, <2>4, <2>5, <2>6, <2>7, PiecesStay
            DEF ResponseInv, Before
<1>2. CASE Parse
    <2>1. /\ net.state = "parse" /\ h' = h /\ caller' = caller /\ ret' = ret
          /\ fate' = fate /\ cl' = cl
          /\ parse' = HttpParserResponse(r, cl.m_resHttp)
          /\ net' = [net EXCEPT !.state = "parsing"]
        BY <1>2 DEF Parse
    <2>2. /\ net'.response = net.response /\ net'.sent = net.sent
          /\ net'.state = "parsing"
        BY <1>0, <2>1
    <2>3. SamePieces
        BY <2>1, <2>2 DEF SamePieces
    <2>4. ~Told /\ ~Told'
        BY <2>1 DEF ResponseInv, Told
    <2>5. C => Right(parse', net.response, h.cuts, net.sent)
        BY <1>0, <2>1, HeadRead DEF ResponseInv
    <2>6. C /\ Correct => Correct'
        BY <2>1, <2>2, <2>4, <2>5 DEF Correct
    <2> QED BY <2>1, <2>2, <2>3, <2>4, <2>6, PiecesStay
            DEF ResponseInv, Before
<1>3. CASE ParseChunks
    <2>1. /\ net.state = "parsing" /\ h' = h /\ caller' = caller
          /\ ret' = ret /\ fate' = fate /\ cl' = cl /\ net' = net
          /\ parse.res = NoResponse
          /\ parse' = IF parse.need = NoSize
                      THEN chunkHeader(parse, cl.m_resHttp)
                      ELSE chunkData(parse, cl.m_resHttp)
        BY <1>3 DEF ParseChunks
    <2>3. SamePieces
        BY <2>1 DEF SamePieces
    <2>4. ~Told /\ ~Told'
        BY <2>1 DEF ResponseInv, Told
    <2>5. C /\ Correct => Right(parse', net.response, h.cuts, net.sent)
        <3>1. Correct => Right(parse, net.response, h.cuts, net.sent)
            BY <2>1 DEF Correct
        <3> QED BY <1>0, <2>1, <3>1, TurnRight
    <2>6. C /\ Correct => Correct'
        BY <2>1, <2>4, <2>5 DEF Correct
    <2> QED BY <2>1, <2>3, <2>4, <2>6, PiecesStay DEF ResponseInv, Before
<1>4. CASE ParseReturns
    <2>1. /\ net.state = "parsing" /\ h' = h /\ caller' = caller
          /\ ret' = ret /\ parse' = parse /\ parse.res # NoResponse
          /\ cl' = [cl EXCEPT !.m_res = parse.res]
          /\ fate' = IF parse.res = Thrown THEN "terminated" ELSE fate
          /\ net' = [net EXCEPT !.state = "post"]
        BY <1>4 DEF ParseReturns
    <2>2. /\ cl'.m_res = parse.res /\ cl'.m_resHttp = cl.m_resHttp
          /\ DOMAIN cl' = DOMAIN cl /\ cl'.sem = cl.sem
        BY <2>1 DEF ResponseInv
    <2>3. /\ net'.response = net.response /\ net'.sent = net.sent
          /\ net'.state = "post"
        BY <1>0, <2>1
    <2>4. SamePieces
        BY <2>1, <2>2, <2>3 DEF SamePieces
    <2>5. ~Told /\ ~Told'
        BY <2>1, <2>2 DEF ResponseInv, Told
    <2>6. Correct => parse.res = Answer(r, net.sent) /\ parse.res # Thrown
        <3> SUFFICES ASSUME Correct
                     PROVE  /\ parse.res = Answer(r, net.sent)
                            /\ parse.res # Thrown
            OBVIOUS
        <3>1. Right(parse, r, h.cuts, net.sent)
            BY <2>1 DEF Correct
        <3>2. ~Midway(parse, r, h.cuts)
            BY <2>1 DEF Midway, InChunk, InHeader, InData, Stands
        <3>3. parse = Return(Answer(r, net.sent))
            BY <3>1, <3>2 DEF Right
        <3>4. parse.res = Answer(r, net.sent)
            BY <3>3 DEF Return
        <3>5. Answer(r, net.sent).st \in {"null", "parsed"}
            BY DEF Answer, Null, Parsed
        <3>6. Thrown.st = "thrown"
            BY DEF Thrown
        <3> QED BY <3>4, <3>5, <3>6
    <2>7. Correct => Correct'
        BY <2>1, <2>2, <2>3, <2>5, <2>6 DEF Correct, ResponseInv, Told
    <2> QED BY <2>2, <2>3, <2>4, <2>5, <2>7, PiecesStay
            DEF ResponseInv, Before
<1>5. CASE Post
    <2>1. /\ net.state = "post" /\ h' = h /\ caller' = caller
          /\ ret' = ret /\ parse' = parse /\ fate' = fate
          /\ cl' = [cl EXCEPT !.sem = @ + 1]
          /\ net' = [net EXCEPT !.state = "disconnect"]
        BY <1>5 DEF Post
    <2>2. /\ cl'.m_res = cl.m_res /\ cl'.m_resHttp = cl.m_resHttp
          /\ DOMAIN cl' = DOMAIN cl /\ cl'.sem = cl.sem + 1
        BY <2>1 DEF ResponseInv
    <2>3. /\ net'.response = net.response /\ net'.sent = net.sent
          /\ net'.state = "disconnect"
        BY <1>0, <2>1
    <2>4. SamePieces /\ cl'.sem \in Nat
        BY <2>1, <2>2, <2>3 DEF SamePieces, ResponseInv
    <2>5. Correct => Correct'
        BY <2>1, <2>2, <2>3 DEF Correct
    <2> QED BY <2>2, <2>3, <2>4, <2>5, PiecesStay DEF ResponseInv, Before
<1>6. CASE Disconnect \/ Unlock \/ RemoveConnection
    <2>1. /\ net.state \in {"disconnect", "unlock", "remove"} /\ h' = h
          /\ caller' = caller /\ ret' = ret /\ parse' = parse
          /\ fate' \in {fate, "use after free"}
          /\ \E s \in {"unlock", "remove", "over"} :
                 net' = [net EXCEPT !.state = s]
        BY <1>6 DEF Disconnect, Unlock, RemoveConnection, Uses, ResponseInv,
                    OnceInv, Down
    <2>2. /\ cl'.m_res = cl.m_res /\ cl'.m_resHttp = cl.m_resHttp
          /\ DOMAIN cl' = DOMAIN cl /\ cl'.sem = cl.sem
        BY <1>6 DEF Disconnect, Unlock, RemoveConnection, Uses, ResponseInv
    <2>3. /\ net'.response = net.response /\ net'.sent = net.sent
          /\ net'.state \in {"unlock", "remove", "over"}
        BY <1>0, <2>1
    <2>4. SamePieces
        BY <2>1, <2>2, <2>3 DEF SamePieces
    <2>5. Told' <=> Told
        BY <2>1, <2>2 DEF Told
    <2>6. Correct => Correct'
        BY <2>1, <2>2, <2>3, <2>5 DEF Correct
    <2> QED BY <2>2, <2>3, <2>4, <2>5, <2>6, PiecesStay
            DEF ResponseInv, Before
<1> QED BY <1>1, <1>2, <1>3, <1>4, <1>5, <1>6

LEMMA ResponseStep == ResponseInv /\ [ClientNext]_clientVars => ResponseInv'
<1> SUFFICES ASSUME ResponseInv, [ClientNext]_clientVars PROVE ResponseInv'
    OBVIOUS
<1>1. CASE UNCHANGED clientVars
    <2>1. SamePieces /\ OnceInv'
        BY <1>1 DEF clientVars, SamePieces, ResponseInv, OnceInv
    <2>2. (Told' <=> Told) /\ (Correct' <=> Correct)
        BY <1>1 DEF clientVars, Told, Correct
    <2> QED BY <1>1, <2>1, <2>2, PiecesStay DEF clientVars, ResponseInv
<1>2. CASE ClientNext
    <2>1. OnceInv'
        BY <1>2, CallerKeeps, ConnectKeeps, ReceiveKeeps, DownKeeps
        DEF ClientNext, Loop, ResponseInv
    <2> QED BY <1>2, <2>1, CallerAsks, NetworkMoves, Arrives, ClosesAndParses
            DEF ClientNext, Loop
<1> QED BY <1>1, <1>2

\* However the response of the server is cut into pieces: as long as none of
\* the cuts is in the head or in a chunk header, DoRequest returns the body
\* that was sent, and nothing for a response that was cut short, and the
\* parser does not throw; for any body, in any chunks.
THEOREM ResponseAlwaysAsSent == ClientSpec => []ResponseAsSent
<1>1. ResponseInv => ResponseAsSent
    BY DEF ResponseInv, Correct, Clean, Answer, ResponseAsSent
<1> QED BY <1>1, ResponseInit, ResponseStep, PTL DEF ClientSpec

-----------------------------------------------------------------------------
(* Frames.                                                                 *)

\* What the unit u of the part c (head, mask, data) of the fragment b of the
\* message a of S is.
Fits(u, S, a, b, c) ==
    /\ a \in 1..Len(S) /\ b \in 1..Len(S[a]) /\ c \in 1..3
    /\ Len(S[a]) <= 3
    /\ c = 1 => /\ u.t = "head" /\ u.v.op \in DataOpcodes
                /\ b = Len(S[a]) => u.v.fin = TRUE
                /\ b # Len(S[a]) => u.v.fin = FALSE
    /\ c = 2 => u.t = "mask" /\ u.v = b
    /\ c = 3 => u.t = "data" /\ u.v = Masked(S[a][b], b)
    /\ c # 1 \/ b # 1 => u.first = FALSE

\* The part that comes after one: of the frame, of the next, or of the next
\* message.
Follows(S, a, b, c, d, e, f) ==
    /\ c # 3 => d = a /\ e = b /\ f = c + 1
    /\ c = 3 /\ b # Len(S[a]) => d = a /\ e = b + 1 /\ f = 1
    /\ c = 3 /\ b = Len(S[a]) => d = a + 1 /\ e = 1 /\ f = 1

\* The units of B are those of the messages of S behind g, up to n: unit j
\* is part p[j] of fragment f[j] of message m[j].
Laid(B, S, g, n, m, f, p) ==
    /\ \A j \in 1..Len(B) : Fits(B[j], S, m[j], f[j], p[j])
    /\ \A j \in 1..Len(B) - 1 :
           Follows(S, m[j], f[j], p[j], m[j + 1], f[j + 1], p[j + 1])
    /\ Len(B) # 0 =>
           /\ m[1] = g + 1 /\ f[1] = 1 /\ p[1] = 1
           /\ m[Len(B)] = n /\ f[Len(B)] = Len(S[n]) /\ p[Len(B)] = 3
    /\ Len(B) = 0 => n = g

Carries(B, S, g, n) ==
    /\ \E U : B \in Seq(U)
    /\ \E m, f, p : Laid(B, S, g, n, m, f, p)

\* A decoder before its next frame.
Decoder(B, j, d, e) ==
    [buf |-> SubSeq(B, j, Len(B)), data |-> d, end |-> e]

\* What is at the front of the rest of B.
LEMMA FrontOf ==
    ASSUME NEW U, NEW B \in Seq(U), NEW j \in 1..Len(B), NEW t,
           NEW s, s = SubSeq(B, j, Len(B)), B[j].t = t
    PROVE  /\ AtFront(s, t) = "there" /\ Head(s) = B[j]
           /\ Tail(s) = SubSeq(B, j + 1, Len(B))
<1>1. s # <<>> /\ Head(s) = B[j]
    <2>1. s \in Seq(U) /\ Len(s) = Len(B) - j + 1 /\ s[1] = B[j]
        OBVIOUS
    <2>2. s # <<>>
        <3>1. Len(s) # 0
            BY <2>1
        <3> QED BY <3>1
    <2>3. Head(s) = s[1]
        BY <2>1, <2>2
    <2> QED BY <2>1, <2>2, <2>3
<1>2. Tail(s) = SubSeq(B, j + 1, Len(B))
    OBVIOUS
<1>3. AtFront(s, t) = "there"
    BY <1>1 DEF AtFront
<1> QED BY <1>1, <1>2, <1>3

\* The places of a frame in the stream.
LEMMA FrameParts ==
    ASSUME NEW B, Len(B) \in Nat, NEW S, NEW g, NEW n, NEW m, NEW f, NEW p,
           Laid(B, S, g, n, m, f, p), NEW j \in 1..Len(B), p[j] = 1
    PROVE  /\ j + 2 <= Len(B)
           /\ m[j + 1] = m[j] /\ f[j + 1] = f[j] /\ p[j + 1] = 2
           /\ m[j + 2] = m[j] /\ f[j + 2] = f[j] /\ p[j + 2] = 3
           /\ f[j] # Len(S[m[j]]) =>
                  /\ j + 3 <= Len(B)
                  /\ m[j + 3] = m[j] /\ f[j + 3] = f[j] + 1 /\ p[j + 3] = 1
           /\ f[j] = Len(S[m[j]]) /\ j + 3 <= Len(B) =>
                  m[j + 3] = m[j] + 1 /\ f[j + 3] = 1 /\ p[j + 3] = 1
           /\ f[j] = Len(S[m[j]]) /\ j + 2 = Len(B) => m[j] = n
<1>1. /\ m[Len(B)] = n /\ f[Len(B)] = Len(S[n]) /\ p[Len(B)] = 3
      /\ \A k \in 1..Len(B) - 1 :
             Follows(S, m[k], f[k], p[k], m[k + 1], f[k + 1], p[k + 1])
    BY DEF Laid
<1>2. j # Len(B) /\ j \in 1..Len(B) - 1
    BY <1>1
<1>3. m[j + 1] = m[j] /\ f[j + 1] = f[j] /\ p[j + 1] = 2
    BY <1>1, <1>2 DEF Follows
<1>4. j + 1 # Len(B) /\ j + 1 \in 1..Len(B) - 1 /\ j + 1 + 1 = j + 2
    BY <1>1, <1>2, <1>3
<1>5. m[j + 2] = m[j] /\ f[j + 2] = f[j] /\ p[j + 2] = 3
    <2>1. Follows(S, m[j + 1], f[j + 1], p[j + 1],
                     m[j + 2], f[j + 2], p[j + 2])
        BY <1>1, <1>4
    <2> QED BY <1>3, <2>1 DEF Follows
<1>6. CASE j + 2 = Len(B)
    BY <1>1, <1>3, <1>4, <1>5, <1>6
<1>7. CASE j + 2 # Len(B)
    <2>1. j + 2 \in 1..Len(B) - 1 /\ j + 2 + 1 = j + 3
        BY <1>4, <1>7
    <2>2. Follows(S, m[j + 2], f[j + 2], p[j + 2],
                     m[j + 3], f[j + 3], p[j + 3])
        BY <1>1, <2>1
    <2>3. Follows(S, m[j], f[j], 3, m[j + 3], f[j + 3], p[j + 3])
        BY <1>5, <2>2
    <2> QED BY <1>3, <1>5, <2>1, <2>3 DEF Follows
<1> QED BY <1>6, <1>7

\* One turn of the decoder on a frame of the stream.
LEMMA FrameTurn ==
    ASSUME NEW U, NEW B \in Seq(U), NEW S, NEW g, NEW n,
           NEW m, NEW f, NEW p, Laid(B, S, g, n, m, f, p),
           NEW j \in 1..Len(B), p[j] = 1, NEW d,
           NEW a, a = Frame(Decoder(B, j, d, "go"))
    PROVE  a = Decoder(B, j + 3, Append(d, S[m[j]][f[j]]),
                       IF f[j] = Len(S[m[j]]) THEN "message" ELSE "go")
<1> DEFINE N == Len(B)
           s == SubSeq(B, j, N)
           t == SubSeq(B, j + 1, N)
           u == SubSeq(B, j + 2, N)
           w == SubSeq(B, j + 3, N)
           x == [buf |-> s, data |-> d, end |-> "go"]
           y == [buf |-> t, data |-> d, end |-> "go"]
           hd == B[j].v
<1>0. Len(B) \in Nat
    OBVIOUS
<1>1. /\ j + 2 <= N
      /\ m[j + 1] = m[j] /\ f[j + 1] = f[j] /\ p[j + 1] = 2
      /\ m[j + 2] = m[j] /\ f[j + 2] = f[j] /\ p[j + 2] = 3
    BY <1>0, FrameParts
<1>2. j + 1 \in 1..N /\ j + 2 \in 1..N
    BY <1>1
<1>3. /\ Fits(B[j], S, m[j], f[j], 1)
      /\ Fits(B[j + 1], S, m[j], f[j], 2)
      /\ Fits(B[j + 2], S, m[j], f[j], 3)
    BY <1>1, <1>2 DEF Laid
<1>4. /\ B[j].t = "head" /\ hd.op \in DataOpcodes
      /\ f[j] = Len(S[m[j]]) => hd.fin = TRUE
      /\ f[j] # Len(S[m[j]]) => hd.fin = FALSE
      /\ B[j + 1].t = "mask" /\ B[j + 1].v = f[j]
      /\ B[j + 2].t = "data" /\ B[j + 2].v = Masked(S[m[j]][f[j]], f[j])
    BY <1>3 DEF Fits
<1>5. /\ AtFront(s, "head") = "there" /\ Head(s) = B[j] /\ Tail(s) = t
    <2>1. j \in 1..N /\ B[j].t = "head"
        BY <1>4
    <2>2. /\ AtFront(SubSeq(B, j, N), "head") = "there"
          /\ Head(SubSeq(B, j, N)) = B[j]
          /\ Tail(SubSeq(B, j, N)) = SubSeq(B, j + 1, N)
        BY <2>1, FrontOf
    <2> QED BY <2>2
<1>6. /\ AtFront(t, "mask") = "there" /\ Head(t) = B[j + 1]
      /\ Tail(t) = u
    <2> DEFINE i == j + 1
    <2>1. i \in 1..N /\ B[i].t = "mask" /\ i + 1 = j + 2
        BY <1>2, <1>4
    <2> HIDE DEF i
    <2>2. /\ AtFront(SubSeq(B, i, N), "mask") = "there"
          /\ Head(SubSeq(B, i, N)) = B[i]
          /\ Tail(SubSeq(B, i, N)) = SubSeq(B, i + 1, N)
        BY <2>1, FrontOf
    <2> QED BY <2>1, <2>2 DEF i
<1>7. /\ AtFront(u, "data") = "there" /\ Head(u) = B[j + 2]
      /\ Tail(u) = w
    <2> DEFINE i == j + 2
    <2>1. i \in 1..N /\ B[i].t = "data" /\ i + 1 = j + 3
        BY <1>2, <1>4
    <2> HIDE DEF i
    <2>2. /\ AtFront(SubSeq(B, i, N), "data") = "there"
          /\ Head(SubSeq(B, i, N)) = B[i]
          /\ Tail(SubSeq(B, i, N)) = SubSeq(B, i + 1, N)
        BY <2>1, FrontOf
    <2> QED BY <2>1, <2>2 DEF i
<1> HIDE DEF s, t, u, w, hd, N
<1>8. Unmasked(Head(u).v, Head(t).v) = S[m[j]][f[j]]
    BY <1>4, <1>6, <1>7 DEF Masked, Unmasked
<1>9. Frame(x) = DataFrame(y, hd)
    <2>1. x.end = "go" /\ x.buf = s
        OBVIOUS
    <2>2. [x EXCEPT !.buf = Tail(s)] = y
        <3>1. [x EXCEPT !.buf = t] = y
            OBVIOUS
        <3> QED BY <1>5, <3>1, Zenon
    <2>3. Head(x.buf).v = hd
        BY <1>5, <2>1 DEF hd
    <2> HIDE DEF x, y
    <2> QED BY <1>4, <1>5, <2>1, <2>2, <2>3 DEF Frame
<1>10. DataFrame(y, hd) = [buf |-> w, data |-> Append(d, S[m[j]][f[j]]),
                          end |-> IF hd.fin THEN "message" ELSE "go"]
    <2>1. y.buf = t /\ y.data = d
        OBVIOUS
    <2>2. DataFrame(y, hd) =
              [y EXCEPT !.buf = w,
                        !.data = Append(d, S[m[j]][f[j]]),
                        !.end = IF hd.fin THEN "message" ELSE "go"]
        <3> HIDE DEF y
        <3> QED BY <1>6, <1>7, <1>8, <2>1 DEF DataFrame
    <2> QED BY <2>2
<1>11. a = Frame(x)
    BY DEF Decoder, s, N
<1> QED BY <1>4, <1>9, <1>10, <1>11 DEF Decoder, w, N

\* A decoder that has its message turns no more.
LEMMA FrameStays ==
    ASSUME NEW B, NEW k, NEW d
    PROVE  Frame(Decoder(B, k, d, "message")) = Decoder(B, k, d, "message")
BY DEF Frame, Decoder

\* A decoder a that has read fragment b of message i, of L fragments, and
\* stands at k.
Read(a, B, k, e, i, b, L, n, m, f, p) ==
    /\ b # L => /\ a = Decoder(B, k, e, "go") /\ k <= Len(B)
                /\ m[k] = i /\ f[k] = b + 1 /\ p[k] = 1
    /\ b = L => /\ a = Decoder(B, k, e, "message")
                /\ k <= Len(B) => m[k] = i + 1 /\ f[k] = 1 /\ p[k] = 1
                /\ k = Len(B) + 1 => i = n

\* One turn of a decoder on the fragment b of the message M.
LEMMA FragmentRead ==
    ASSUME NEW U, NEW B \in Seq(U), NEW S, NEW g, NEW n,
           NEW m, NEW f, NEW p, Laid(B, S, g, n, m, f, p),
           NEW j \in 1..Len(B), p[j] = 1, NEW k, k = j + 3,
           NEW i, m[j] = i, NEW b, f[j] = b, NEW M, S[i] = M,
           NEW d, NEW e, e = Append(d, M[b]),
           NEW a, a = Frame(Decoder(B, j, d, "go"))
    PROVE  /\ j + 2 <= Len(B)
           /\ Read(a, B, k, e, i, b, Len(M), n, m, f, p)
<1>1. a = Decoder(B, j + 3, Append(d, S[m[j]][f[j]]),
                  IF f[j] = Len(S[m[j]]) THEN "message" ELSE "go")
    BY FrameTurn
<1>2. a = Decoder(B, k, e, IF b = Len(M) THEN "message" ELSE "go")
    BY <1>1
<1>3. Len(B) \in Nat
    OBVIOUS
<1>4. /\ j + 2 <= Len(B)
      /\ f[j] # Len(S[m[j]]) =>
             /\ j + 3 <= Len(B)
             /\ m[j + 3] = m[j] /\ f[j + 3] = f[j] + 1 /\ p[j + 3] = 1
      /\ f[j] = Len(S[m[j]]) /\ j + 3 <= Len(B) =>
             m[j + 3] = m[j] + 1 /\ f[j + 3] = 1 /\ p[j + 3] = 1
      /\ f[j] = Len(S[m[j]]) /\ j + 2 = Len(B) => m[j] = n
    BY <1>3, FrameParts
<1>5. /\ b # Len(M) => /\ k <= Len(B) /\ m[k] = i
                       /\ f[k] = b + 1 /\ p[k] = 1
      /\ b = Len(M) /\ k <= Len(B) =>
             m[k] = i + 1 /\ f[k] = 1 /\ p[k] = 1
      /\ b = Len(M) /\ j + 2 = Len(B) => i = n
    BY <1>4
<1>6. k = Len(B) + 1 => j + 2 = Len(B)
    BY <1>3, <1>4
<1>7. Read(a, B, k, e, i, b, Len(M), n, m, f, p)
    BY <1>2, <1>5, <1>6 DEF Read
<1> QED BY <1>4, <1>7

\* A decoder c that has read the message M, the i-th, from j on.
Turned(c, B, j, M, i, n, m, f, p) ==
    \E k \in j + 1..Len(B) + 1 :
        /\ c = Decoder(B, k, M, "message")
        /\ k <= Len(B) => m[k] = i + 1 /\ f[k] = 1 /\ p[k] = 1
        /\ k = Len(B) + 1 => i = n

\* DecodeWSFrameMessage where a message begins takes the message, and no more.
LEMMA MessageTurn ==
    ASSUME NEW U, NEW B \in Seq(U), NEW S, NEW g, NEW n,
           NEW m, NEW f, NEW p, Laid(B, S, g, n, m, f, p),
           NEW j \in 1..Len(B), f[j] = 1, p[j] = 1,
           NEW i, m[j] = i, NEW V, NEW M \in Seq(V), S[i] = M,
           NEW c, c = Decode(SubSeq(B, j, Len(B)))
    PROVE  Turned(c, B, j, M, i, n, m, f, p)
<1> DEFINE L == Len(M)
           d0 == <<>>
           d1 == <<M[1]>>
           d2 == <<M[1], M[2]>>
           d3 == <<M[1], M[2], M[3]>>
           x == Frame(Decoder(B, j, d0, "go"))
           y == Frame(x)
           k1 == j + 3
           k2 == k1 + 3
           k3 == k2 + 3
<1>1. L <= 3 /\ L >= 1 /\ L \in Nat /\ Len(B) \in Nat
    <2>1. Fits(B[j], S, m[j], f[j], p[j])
        BY DEF Laid
    <2>2. Len(M) <= 3 /\ f[j] \in 1..Len(M)
        BY <2>1 DEF Fits
    <2> QED BY <2>2
<1>2. c = Frame(y) /\ y = Frame(x) /\ x = Frame(Decoder(B, j, d0, "go"))
    BY DEF Decode, Decoder
<1>3. d1 = Append(d0, M[1]) /\ d2 = Append(d1, M[2]) /\ d3 = Append(d2, M[3])
    OBVIOUS
<1>4. (L = 1 => d1 = M) /\ (L = 2 => d2 = M) /\ (L = 3 => d3 = M)
    OBVIOUS
<1>5. k1 = j + 3 /\ k2 = k1 + 3 /\ k3 = k2 + 3 /\ L = Len(M)
    OBVIOUS
<1> HIDE DEF L, x, y, d0, d1, d2, d3, k1, k2, k3
<1>6. L = 1 \/ L = 2 \/ L = 3
    BY <1>1
<1>7. k1 \in j + 1..Len(B) + 1 /\ Read(x, B, k1, d1, i, 1, L, n, m, f, p)
    <2>1. /\ x = Frame(Decoder(B, j, d0, "go")) /\ k1 = j + 3
          /\ d1 = Append(d0, M[1]) /\ L = Len(M)
        BY <1>2, <1>3, <1>5
    <2>2. k1 \in j + 1..Len(B) + 1
        <3>1. j + 2 <= Len(B)
            BY <1>1, FrameParts
        <3> QED BY <1>1, <2>1, <3>1
    <2>3. Read(x, B, k1, d1, i, 1, L, n, m, f, p)
        BY <2>1, FragmentRead
    <2> QED BY <2>2, <2>3
<1>8. CASE L = 1
    <2>1. /\ x = Decoder(B, k1, M, "message")
          /\ k1 <= Len(B) => m[k1] = i + 1 /\ f[k1] = 1 /\ p[k1] = 1
          /\ k1 = Len(B) + 1 => i = n
        BY <1>4, <1>7, <1>8 DEF Read
    <2>2. c = Decoder(B, k1, M, "message")
        BY <1>2, <2>1, FrameStays
    <2> QED BY <1>7, <2>1, <2>2 DEF Turned
<1>9. CASE L # 1
    <2>1. /\ k1 \in 1..Len(B) /\ m[k1] = i /\ f[k1] = 2 /\ p[k1] = 1
          /\ y = Frame(Decoder(B, k1, d1, "go"))
        BY <1>1, <1>2, <1>7, <1>9 DEF Read
    <2>2. k2 \in k1 + 1..Len(B) + 1 /\ Read(y, B, k2, d2, i, 2, L, n, m, f, p)
        <3>1. k2 = k1 + 3 /\ d2 = Append(d1, M[2]) /\ L = Len(M)
            BY <1>3, <1>5
        <3>2. k2 \in k1 + 1..Len(B) + 1
            <4>1. k1 + 2 <= Len(B)
                BY <1>1, <2>1, FrameParts
            <4> QED BY <1>1, <2>1, <3>1, <4>1
        <3>3. Read(y, B, k2, d2, i, 2, L, n, m, f, p)
            BY <2>1, <3>1, FragmentRead
        <3> QED BY <3>2, <3>3
    <2>3. k2 \in j + 1..Len(B) + 1
        BY <1>1, <1>7, <2>1, <2>2
    <2>4. CASE L = 2
        <3>1. /\ y = Decoder(B, k2, M, "message")
              /\ k2 <= Len(B) => m[k2] = i + 1 /\ f[k2] = 1 /\ p[k2] = 1
              /\ k2 = Len(B) + 1 => i = n
            BY <1>4, <2>2, <2>4 DEF Read
        <3>2. c = Decoder(B, k2, M, "message")
            BY <1>2, <3>1, FrameStays
        <3> QED BY <2>3, <3>1, <3>2 DEF Turned
    <2>5. CASE L # 2
        <3>1. L = 3
            BY <1>6, <1>9, <2>5
        <3>2. /\ k2 \in 1..Len(B) /\ m[k2] = i /\ f[k2] = 3 /\ p[k2] = 1
              /\ c = Frame(Decoder(B, k2, d2, "go"))
            BY <1>1, <1>2, <2>1, <2>2, <2>5 DEF Read
        <3>3. /\ k3 \in k2 + 1..Len(B) + 1
              /\ Read(c, B, k3, d3, i, 3, L, n, m, f, p)
            <4>1. k3 = k2 + 3 /\ d3 = Append(d2, M[3]) /\ L = Len(M)
                BY <1>3, <1>5
            <4>2. k3 \in k2 + 1..Len(B) + 1
                <5>1. k2 + 2 <= Len(B)
                    BY <1>1, <3>2, FrameParts
                <5> QED BY <1>1, <3>2, <4>1, <5>1
            <4>3. Read(c, B, k3, d3, i, 3, L, n, m, f, p)
                BY <3>2, <4>1, FragmentRead
            <4> QED BY <4>2, <4>3
        <3>4. k3 \in j + 1..Len(B) + 1
            BY <1>1, <2>3, <3>2, <3>3
        <3> QED BY <1>4, <3>1, <3>3, <3>4 DEF Read, Turned
    <2> QED BY <2>4, <2>5
<1> QED BY <1>8, <1>9

\* What a turn of the decoder leaves: no more than there was, and less if it
\* has a message now.
Shrunk(b, U, s, e) ==
    /\ b = [buf |-> b.buf, data |-> b.data, end |-> b.end]
    /\ b.buf \in Seq(U) /\ Len(b.buf) <= Len(s)
    /\ b.end = "message" /\ e # "message" => Len(b.buf) < Len(s)

LEMMA FrameShrinks ==
    ASSUME NEW U, NEW s \in Seq(U), NEW d, NEW e,
           NEW b, b = Frame([buf |-> s, data |-> d, end |-> e])
    PROVE  Shrunk(b, U, s, e)
<1> DEFINE a == [buf |-> s, data |-> d, end |-> e]
           t == Tail(s)
           u == Tail(t)
           w == Tail(u)
           hd == Head(s).v
           y == [buf |-> t, data |-> d, end |-> "go"]
           new == Append(d, Unmasked(Head(u).v, Head(t).v))
<1>1. CASE e # "go"
    <2>1. b = a
        BY <1>1 DEF Frame
    <2> QED BY <1>1, <2>1 DEF Shrunk
<1>2. CASE e = "go" /\ AtFront(s, "head") # "there"
    <2> DEFINE x == AtFront(s, "head")
    <2>1. b = [a EXCEPT !.end = x]
        BY <1>2 DEF Frame
    <2>2. x # "message"
        BY DEF AtFront
    <2> HIDE DEF x
    <2>3. b = [buf |-> s, data |-> d, end |-> x]
        BY <2>1
    <2> QED BY <2>2, <2>3 DEF Shrunk
<1>3. CASE e = "go" /\ AtFront(s, "head") = "there"
    <2>1. s # <<>>
        BY <1>3 DEF AtFront
    <2>2. t \in Seq(U) /\ Len(t) = Len(s) - 1 /\ Len(s) \in Nat
        BY <2>1
    <2>3. b = IF hd.op \in DataOpcodes THEN DataFrame(y, hd) ELSE y
        <3>1. [a EXCEPT !.buf = t] = y
            <4> HIDE DEF t
            <4>1. [a EXCEPT !.buf = t] = [buf |-> t, data |-> d, end |-> e]
                OBVIOUS
            <4> QED BY <1>3, <4>1
        <3>2. a.end = "go" /\ a.buf = s
            BY <1>3
        <3> HIDE DEF a, y, t
        <3> QED BY <1>3, <3>1, <3>2 DEF Frame, a, t
    <2>4. CASE hd.op \notin DataOpcodes
        <3>1. b = y
            BY <2>3, <2>4
        <3> HIDE DEF t
        <3> QED BY <1>3, <2>2, <3>1 DEF Shrunk
    <2>5. CASE hd.op \in DataOpcodes /\ AtFront(t, "mask") # "there"
        <3> DEFINE x == AtFront(t, "mask")
        <3>1. b = [y EXCEPT !.buf = t, !.end = x]
            BY <2>3, <2>5 DEF DataFrame
        <3>2. x # "message"
            BY DEF AtFront
        <3> HIDE DEF x, t
        <3>3. b = [buf |-> t, data |-> d, end |-> x]
            BY <3>1
        <3> QED BY <2>2, <3>2, <3>3 DEF Shrunk
    <2>6. CASE hd.op \in DataOpcodes /\ AtFront(t, "mask") = "there"
        <3>1. t # <<>>
            BY <2>6 DEF AtFront
        <3>2. u \in Seq(U) /\ Len(u) = Len(t) - 1
            <4> HIDE DEF t
            <4> QED BY <2>2, <3>1
        <3>3. CASE AtFront(u, "data") # "there"
            <4> DEFINE x == AtFront(u, "data")
            <4>1. b = [y EXCEPT !.buf = u, !.end = x]
                BY <2>3, <2>6, <3>3 DEF DataFrame
            <4>2. x # "message"
                BY DEF AtFront
            <4> HIDE DEF x, u, t
            <4>3. b = [buf |-> u, data |-> d, end |-> x]
                BY <4>1
            <4> QED BY <2>2, <3>2, <4>2, <4>3 DEF Shrunk
        <3>4. CASE AtFront(u, "data") = "there"
            <4> DEFINE x == IF hd.fin THEN "message" ELSE "go"
            <4>1. b = [y EXCEPT !.buf = w, !.data = new, !.end = x]
                BY <2>3, <2>6, <3>4 DEF DataFrame
            <4>2. u # <<>>
                BY <3>4 DEF AtFront
            <4>3. w \in Seq(U) /\ Len(w) = Len(u) - 1
                <5> HIDE DEF u
                <5> QED BY <3>2, <4>2
            <4> HIDE DEF x, u, t, w, new
            <4>4. b = [buf |-> w, data |-> new, end |-> x]
                BY <4>1
            <4> QED BY <2>2, <3>2, <4>3, <4>4 DEF Shrunk
        <3> QED BY <3>3, <3>4
    <2> QED BY <2>4, <2>5, <2>6
<1> QED BY <1>1, <1>2, <1>3

\* DecodeWSFrameMessage takes something if it returns a message.
LEMMA DecodeShrinks ==
    ASSUME NEW U, NEW s \in Seq(U), NEW c, c = Decode(s), c.end = "message"
    PROVE  Len(c.buf) \in Nat /\ Len(c.buf) < Len(s)
<1> DEFINE x == Frame([buf |-> s, data |-> <<>>, end |-> "go"])
           y == Frame(x)
<1>1. c = Frame(y) /\ y = Frame(x)
    BY DEF Decode
<1>2. Shrunk(x, U, s, "go")
    BY FrameShrinks
<1> HIDE DEF x, y
<1>3. Shrunk(y, U, x.buf, x.end)
    BY <1>1, <1>2, FrameShrinks DEF Shrunk
<1>4. Shrunk(c, U, y.buf, y.end)
    BY <1>1, <1>3, FrameShrinks DEF Shrunk
<1>5. /\ x.buf \in Seq(U) /\ Len(x.buf) <= Len(s)
      /\ x.end = "message" => Len(x.buf) < Len(s)
      /\ y.buf \in Seq(U) /\ Len(y.buf) <= Len(x.buf)
      /\ y.end = "message" /\ x.end # "message" => Len(y.buf) < Len(x.buf)
      /\ c.buf \in Seq(U) /\ Len(c.buf) <= Len(y.buf)
      /\ y.end # "message" => Len(c.buf) < Len(y.buf)
    BY <1>2, <1>3, <1>4 DEF Shrunk
<1>6. /\ Len(s) \in Nat /\ Len(x.buf) \in Nat
      /\ Len(y.buf) \in Nat /\ Len(c.buf) \in Nat
    BY <1>5
<1> QED BY <1>5, <1>6


\* The loop over messages, from its end and from the message d on.
NoMore == [buf |-> <<>>, msgs |-> <<>>, end |-> "message"]
WithFirst(d, rest) == [rest EXCEPT !.msgs = <<d.data>> \o @]

\* Where the loop stands after a message is further on.
LEMMA LoopGoesOn ==
    ASSUME NEW U, NEW B \in Seq(U), NEW n, n = Len(B), NEW i \in 1..n,
           NEW c, c = Decode(SubSeq(B, i, n)), c.end = "message"
    PROVE  n + 1 - Len(c.buf) \in i + 1..n + 1
<1> DEFINE s == SubSeq(B, i, n)
<1>1. s \in Seq(U) /\ Len(s) = n - i + 1 /\ n \in Nat
    OBVIOUS
<1>2. c = Decode(s)
    OBVIOUS
<1> HIDE DEF s
<1>3. Len(c.buf) \in Nat /\ Len(c.buf) < Len(s)
    BY <1>1, <1>2, DecodeShrinks
<1>4. \A a, b \in Nat : a < b /\ b = n - i + 1 => n + 1 - a \in i + 1..n + 1
    BY <1>1
<1>5. Len(s) \in Nat
    BY <1>1
<1> QED BY <1>1, <1>3, <1>4, <1>5

\* What is decoded from unit i on, and that a message takes something.
DecodedAt(B, i) == Decode(SubSeq(B, i, Len(B)))
Advances(B) ==
    \A i \in 1..Len(B) :
        DecodedAt(B, i).end = "message" =>
            Len(B) + 1 - Len(DecodedAt(B, i).buf) \in i + 1..Len(B) + 1

\* What the loop does where it finds a message.
LEMMA MessagesDef ==
    ASSUME NEW B, Len(B) \in Nat, Advances(B), NEW f, f = MessagesFrom(B)
    PROVE  /\ f[Len(B) + 1] = NoMore
           /\ \A i \in 1..Len(B) : DecodedAt(B, i).end = "message" =>
                  f[i] = WithFirst(DecodedAt(B, i),
                                   f[Len(B) + 1 - Len(DecodedAt(B, i).buf)])
<1> DEFINE n == Len(B)
           D(i) == DecodedAt(B, i)
           K(i) == n + 1 - Len(D(i).buf)
           Stop(i) == [buf |-> D(i).buf, msgs |-> <<>>, end |-> D(i).end]
           Value(g, i) ==
               IF i > n THEN NoMore
               ELSE IF D(i).end # "message"
               THEN Stop(i) ELSE WithFirst(D(i), g[K(i)])
           Fit(g, k) == g = [i \in n + 1 - k..n + 1 |-> Value(g, i)]
           S == {k \in 0..n : \E g : Fit(g, k)}
<1>0. n \in Nat
    OBVIOUS
<1>1. \A i \in 1..n : D(i).end = "message" =>
          K(i) \in i + 1..n + 1
    BY DEF Advances
<1> HIDE DEF D, K, n, Stop
<1>2. 0 \in S
    <2> DEFINE g == [i \in n + 1 - 0..n + 1 |-> NoMore]
    <2>1. \A i \in n + 1 - 0..n + 1 : Value(g, i) = NoMore
        BY <1>0
    <2>2. Fit(g, 0)
        <3> HIDE DEF Value
        <3> QED BY <2>1
    <2>3. \E w : Fit(w, 0)
        <3> HIDE DEF Fit
        <3> QED BY <2>2, Zenon
    <2> HIDE DEF Fit
    <2> QED BY <1>0, <2>3
<1>3. ASSUME NEW k \in 1..n, k - 1 \in S PROVE k \in S
    <2>1. PICK g : Fit(g, k - 1)
        BY <1>3
    <2> DEFINE c == n + 1 - k
               w == [i \in c..n + 1 |-> IF i = c THEN Value(g, c) ELSE g[i]]
    <2>2. ASSUME NEW i \in c..n + 1 PROVE w[i] = Value(w, i)
        <3>1. i \in Nat /\ c \in Nat /\ (~(i > n) => i \in 1..n)
            BY <1>0
        <3>2. ~(i > n) /\ D(i).end = "message" =>
                  K(i) \in c + 1..n + 1
            BY <1>0, <1>1, <3>1
        <3>3. ~(i > n) /\ D(i).end = "message" =>
                  w[K(i)] = g[K(i)]
            <4> HIDE DEF Value
            <4> QED BY <1>0, <3>1, <3>2
        <3>4. Value(g, i) = Value(w, i)
            <4> HIDE DEF w
            <4> QED BY <3>3
        <3>5. i # c => i \in n + 1 - (k - 1)..n + 1
            BY <1>0
        <3>6. i # c => g[i] = Value(g, i)
            <4> HIDE DEF Value
            <4> QED BY <3>5, <2>1
        <3>7. w[i] = Value(g, i)
            <4> HIDE DEF Value
            <4> QED BY <3>6
        <3> HIDE DEF w, Value
        <3> QED BY <3>4, <3>7
    <2>3. Fit(w, k)
        <3>1. w = [i \in c..n + 1 |-> w[i]]
            OBVIOUS
        <3> HIDE DEF w, Value
        <3> QED BY <2>2, <3>1
    <2>4. \E v : Fit(v, k)
        <3> HIDE DEF w, Fit
        <3> QED BY <2>3, Zenon
    <2>5. k \in 0..n
        BY <1>0
    <2> HIDE DEF Fit
    <2> QED BY <2>4, <2>5
<1>4. n \in S
    <2> HIDE DEF S
    <2>1. n \in 0..n
        BY <1>0
    <2>2. \A k \in 1..n : k - 1 \in S => k \in S
        BY <1>3
    <2> QED BY <1>0, <1>2, <2>1, <2>2, UpTo
<1>5. n + 1 - n = 1
    BY <1>0
<1>6. \E g : g = [i \in 1..n + 1 |-> Value(g, i)]
    <2> HIDE DEF Value
    <2> QED BY <1>4, <1>5
<1>7. f = [i \in 1..n + 1 |-> Value(f, i)]
    BY <1>6, Zenon DEF MessagesFrom, D, K, n, Stop,
                          DecodedAt, NoMore, WithFirst
<1>8. \A i \in 1..n + 1 : f[i] = Value(f, i)
    <2> HIDE DEF Value
    <2> QED BY <1>7
<1>9. f[n + 1] = NoMore
    BY <1>0, <1>8
<1>10. ASSUME NEW i \in 1..n, D(i).end = "message"
       PROVE  f[i] = WithFirst(D(i), f[K(i)])
    <2>1. i \in 1..n + 1 /\ ~(i > n)
        BY <1>0
    <2> QED BY <1>8, <1>10, <2>1
<1> QED BY <1>9, <1>10 DEF D, K, n


-----------------------------------------------------------------------------
(* The loop over a stream of whole messages.                               *)

\* All messages from i to n, decoded.
After(S, i, n) ==
    [buf |-> <<>>, msgs |-> SubSeq(S, i, n), end |-> "message"]

\* Where a message begins at j, the loop goes on from there to the last.
Loops(B, S, n, m, f, p, j) ==
    f[j] = 1 /\ p[j] = 1 =>
        m[j] <= n /\ MessagesFrom(B)[j] = After(S, m[j], n)

LEMMA RestLen ==
    ASSUME NEW U, NEW B \in Seq(U), NEW k \in 1..Len(B) + 1
    PROVE  Len(SubSeq(B, k, Len(B))) = Len(B) - k + 1
OBVIOUS

LEMMA OneFront ==
    ASSUME NEW W, NEW S \in Seq(W), NEW n \in 1..Len(S), NEW i \in 1..n,
           NEW M, M = S[i], NEW d, d.data = M
    PROVE  WithFirst(d, After(S, i + 1, n)) = After(S, i, n)
<1> DEFINE s == SubSeq(S, i + 1, n)
           t == SubSeq(S, i, n)
<1>1. <<M>> \o s = t
    OBVIOUS
<1> HIDE DEF s, t
<1> DEFINE r == [buf |-> <<>>, msgs |-> s, end |-> "message"]
<1>2. [r EXCEPT !.msgs = t] = [buf |-> <<>>, msgs |-> t, end |-> "message"]
    OBVIOUS
<1>3. <<d.data>> \o r.msgs = t
    <2>1. r.msgs = s
        OBVIOUS
    <2> HIDE DEF r
    <2> QED BY <1>1, <2>1
<1>4. WithFirst(d, r) = [r EXCEPT !.msgs = t]
    <2> HIDE DEF r
    <2> QED BY <1>3, Zenon DEF WithFirst
<1> QED BY <1>2, <1>4 DEF After, s, t

LEMMA LoopTurn ==
    ASSUME NEW U, NEW B \in Seq(U), NEW V, NEW S \in Seq(Seq(V)),
           NEW g, NEW n \in 1..Len(S), NEW m, NEW f, NEW p,
           Laid(B, S, g, n, m, f, p), Advances(B), NEW j \in 1..Len(B),
           \A k \in j + 1..Len(B) : Loops(B, S, n, m, f, p, k)
    PROVE  Loops(B, S, n, m, f, p, j)
<1> SUFFICES ASSUME f[j] = 1, p[j] = 1
             PROVE  m[j] <= n /\ MessagesFrom(B)[j] = After(S, m[j], n)
    BY DEF Loops
<1> DEFINE i == m[j]
           M == S[i]
           c == DecodedAt(B, j)
           F == MessagesFrom(B)
           N == Len(B)
<1>1. i \in 1..Len(S) /\ M \in Seq(V) /\ N \in Nat
    <2>1. Fits(B[j], S, m[j], f[j], p[j])
        BY DEF Laid
    <2>2. i \in 1..Len(S)
        BY <2>1 DEF Fits
    <2> QED BY <2>2
<1>2. /\ F[N + 1] = NoMore
      /\ c.end = "message" => F[j] = WithFirst(c, F[N + 1 - Len(c.buf)])
    BY <1>1, MessagesDef
<1>3. \E k \in j + 1..N + 1 :
          /\ c = Decoder(B, k, M, "message")
          /\ k <= N => m[k] = i + 1 /\ f[k] = 1 /\ p[k] = 1
          /\ k = N + 1 => i = n
    <2>1. c = Decode(SubSeq(B, j, Len(B)))
        BY DEF DecodedAt
    <2> HIDE DEF c, M, i, F, N
    <2>2. m[j] = i /\ S[i] = M
        BY DEF i, M
    <2>3. Turned(c, B, j, M, i, n, m, f, p)
        BY <1>1, <2>1, <2>2, MessageTurn
    <2> QED BY <2>3 DEF N, Turned
<1>4. PICK k \in j + 1..N + 1 :
          /\ c = Decoder(B, k, M, "message")
          /\ k <= N => m[k] = i + 1 /\ f[k] = 1 /\ p[k] = 1
          /\ k = N + 1 => i = n
    BY <1>3
<1>5. c.end = "message" /\ c.data = M /\ c.buf = SubSeq(B, k, N)
    BY <1>4 DEF Decoder
<1>6. N + 1 - Len(SubSeq(B, k, N)) = k
    <2>1. k \in 1..N + 1 /\ k \in Nat
        BY <1>1
    <2>2. Len(SubSeq(B, k, N)) = N - k + 1
        BY <2>1, RestLen
    <2>3. N + 1 - (N - k + 1) = k
        BY <1>1, <2>1
    <2> QED BY <2>2, <2>3
<1> HIDE DEF c, M, i, F, N
<1>7. F[j] = WithFirst(c, F[k])
    BY <1>2, <1>5, <1>6
<1>8. i <= n /\ F[k] = After(S, i + 1, n)
    <2>1. CASE k = N + 1
        <3>1. i = n
            BY <1>4, <2>1
        <3>2. SubSeq(S, n + 1, n) = <<>>
            OBVIOUS
        <3>3. F[k] = NoMore
            BY <1>2, <2>1
        <3>4. After(S, n + 1, n) = NoMore
            BY <3>2 DEF After, NoMore
        <3>5. n <= n
            OBVIOUS
        <3> QED BY <3>1, <3>3, <3>4, <3>5
    <2>2. CASE k # N + 1
        <3>1. k \in j + 1..N
            BY <1>1, <2>2
        <3>2. m[k] = i + 1 /\ f[k] = 1 /\ p[k] = 1
            BY <1>1, <1>4, <3>1
        <3>3. Loops(B, S, n, m, f, p, k)
            BY <3>1 DEF N
        <3>4. m[k] <= n /\ F[k] = After(S, m[k], n)
            BY <3>2, <3>3 DEF Loops, F
        <3> QED BY <1>1, <3>2, <3>4
    <2> QED BY <2>1, <2>2
<1>9. i \in 1..n
    BY <1>1, <1>8
<1>10. WithFirst(c, After(S, i + 1, n)) = After(S, i, n)
    BY <1>5, <1>9, OneFront DEF M
<1> QED BY <1>7, <1>8, <1>10 DEF i, F


LEMMA AlwaysAdvances ==
    ASSUME NEW U, NEW B \in Seq(U)
    PROVE  Advances(B)
<1> SUFFICES ASSUME NEW i \in 1..Len(B), DecodedAt(B, i).end = "message"
             PROVE  Len(B) + 1 - Len(DecodedAt(B, i).buf) \in
                        i + 1..Len(B) + 1
    BY DEF Advances
<1> DEFINE c == DecodedAt(B, i)
<1>1. c = Decode(SubSeq(B, i, Len(B))) /\ c.end = "message"
    BY DEF DecodedAt
<1> HIDE DEF c
<1>2. Len(B) + 1 - Len(c.buf) \in i + 1..Len(B) + 1
    BY <1>1, LoopGoesOn
<1> QED BY <1>2 DEF c

\* The loop takes all the messages of a stream that carries whole ones.
LEMMA Decoded ==
    ASSUME NEW B, NEW V, NEW S \in Seq(Seq(V)), NEW g \in 0..Len(S), NEW n,
           Carries(B, S, g, n)
    PROVE  n \in g..Len(S) /\ Messages(B) = After(S, g + 1, n)
<1>1. PICK U, m, f, p : B \in Seq(U) /\ Laid(B, S, g, n, m, f, p)
    BY DEF Carries
<1> DEFINE N == Len(B)
           T == {q \in 0..N : \A k \in N + 1 - q..N :
                                  Loops(B, S, n, m, f, p, k)}
<1>2. Advances(B) /\ N \in Nat
    BY <1>1, AlwaysAdvances
<1>3. CASE N = 0
    <2>1. MessagesFrom(B)[N + 1] = NoMore
        BY <1>2, MessagesDef
    <2>2. n = g /\ N + 1 = 1
        BY <1>1, <1>3 DEF Laid
    <2>3. SubSeq(S, g + 1, g) = <<>>
        OBVIOUS
    <2>4. n \in g..Len(S)
        BY <2>2
    <2> QED BY <2>1, <2>2, <2>3, <2>4 DEF Messages, After, NoMore
<1>4. CASE N # 0
    <2>1. /\ m[1] = g + 1 /\ f[1] = 1 /\ p[1] = 1 /\ m[N] = n
          /\ Fits(B[N], S, m[N], f[N], p[N])
        BY <1>1, <1>2, <1>4 DEF Laid
    <2>2. n \in 1..Len(S)
        BY <2>1 DEF Fits
    <2>3. 0 \in T
        <3> HIDE DEF N
        <3> QED BY <1>2
    <2>4. ASSUME NEW q \in 1..N, q - 1 \in T PROVE q \in T
        <3> DEFINE j == N + 1 - q
        <3>1. j \in 1..N
            <4> HIDE DEF N
            <4> QED BY <1>2
        <3>2. \A k \in j + 1..N : Loops(B, S, n, m, f, p, k)
            <4> HIDE DEF N
            <4>1. N + 1 - (q - 1) = j + 1
                BY <1>2
            <4> QED BY <2>4, <4>1
        <3>3. Loops(B, S, n, m, f, p, j)
            <4> HIDE DEF j
            <4> QED BY <1>1, <1>2, <2>2, <3>1, <3>2, LoopTurn
        <3>4. \A k \in j..N : k = j \/ k \in j + 1..N
            <4> HIDE DEF N
            <4> QED BY <1>2
        <3>5. \A k \in j..N : Loops(B, S, n, m, f, p, k)
            BY <3>2, <3>3, <3>4
        <3>6. q \in 0..N
            <4> HIDE DEF N
            <4> QED BY <1>2
        <3> QED BY <3>5, <3>6
    <2>5. N \in T
        <3> HIDE DEF T, N
        <3>1. N \in 0..N
            BY <1>2
        <3>2. \A q \in 1..N : q - 1 \in T => q \in T
            BY <2>4
        <3> QED BY <1>2, <2>3, <3>1, <3>2, UpTo
    <2>6. Loops(B, S, n, m, f, p, 1)
        <3> HIDE DEF N
        <3>1. 1 \in N + 1 - N..N
            BY <1>2, <1>4
        <3> QED BY <2>5, <3>1
    <2>7. g + 1 <= n /\ Messages(B) = After(S, g + 1, n)
        BY <2>1, <2>6 DEF Loops, Messages
    <2>8. n \in g..Len(S)
        BY <2>2, <2>7
    <2> QED BY <2>7, <2>8
<1> QED BY <1>3, <1>4


-----------------------------------------------------------------------------
(* Streams of messages: nothing, more messages, one after another, and a   *)
(* read that ends between two.                                             *)

LEMMA CarriesNothing ==
    ASSUME NEW S, NEW g PROVE Carries(<<>>, S, g, g)
<1>1. Laid(<<>>, S, g, g, <<>>, <<>>, <<>>)
    BY DEF Laid
<1> QED BY <1>1 DEF Carries

\* A stream means the same when more is said.
LEMMA CarriesStill ==
    ASSUME NEW B, NEW S, NEW g, NEW n, Carries(B, S, g, n), NEW T,
           Len(S) \in Nat, Len(T) \in Nat, Len(T) >= Len(S),
           \A i \in 1..Len(S) : T[i] = S[i]
    PROVE  Carries(B, T, g, n)
<1>1. PICK U, m, f, p : B \in Seq(U) /\ Laid(B, S, g, n, m, f, p)
    BY DEF Carries
<1>2. Len(B) \in Nat
    BY <1>1
<1>3. /\ \A j \in 1..Len(B) : Fits(B[j], S, m[j], f[j], p[j])
      /\ \A j \in 1..Len(B) - 1 :
             Follows(S, m[j], f[j], p[j], m[j + 1], f[j + 1], p[j + 1])
      /\ Len(B) # 0 =>
             /\ m[1] = g + 1 /\ f[1] = 1 /\ p[1] = 1
             /\ m[Len(B)] = n /\ f[Len(B)] = Len(S[n]) /\ p[Len(B)] = 3
      /\ Len(B) = 0 => n = g
    BY <1>1 DEF Laid
<1>4. ASSUME NEW j \in 1..Len(B)
      PROVE  Fits(B[j], T, m[j], f[j], p[j]) /\ T[m[j]] = S[m[j]]
    <2>1. Fits(B[j], S, m[j], f[j], p[j])
        BY <1>3
    <2>2. m[j] \in 1..Len(S)
        BY <2>1 DEF Fits
    <2>3. T[m[j]] = S[m[j]] /\ m[j] \in 1..Len(T)
        BY <2>2
    <2> QED BY <2>1, <2>3 DEF Fits
<1>5. ASSUME NEW j \in 1..Len(B) - 1
      PROVE  Follows(T, m[j], f[j], p[j], m[j + 1], f[j + 1], p[j + 1])
    <2>1. j \in 1..Len(B)
        BY <1>2
    <2>2. T[m[j]] = S[m[j]]
        BY <1>4, <2>1
    <2>3. Follows(S, m[j], f[j], p[j], m[j + 1], f[j + 1], p[j + 1])
        BY <1>3
    <2> QED BY <2>2, <2>3 DEF Follows
<1>6. Len(B) # 0 => T[n] = S[n]
    <2>1. Len(B) # 0 => Len(B) \in 1..Len(B)
        BY <1>2
    <2> QED BY <1>3, <1>4, <2>1
<1>7. Laid(B, T, g, n, m, f, p)
    BY <1>3, <1>4, <1>5, <1>6 DEF Laid
<1> QED BY <1>1, <1>7 DEF Carries

\* Frames, each the fragment b[i] of the message a[i].
LEMMA UnitsLaid ==
    ASSUME NEW F, NEW L \in Nat, L = Len(F), NEW S, NEW g, NEW n,
           NEW a, NEW b,
           \A i \in 1..L : \A c \in 1..3 : Fits(F[i][c], S, a[i], b[i], c),
           \A i \in 1..L - 1 :
               Follows(S, a[i], b[i], 3, a[i + 1], b[i + 1], 1),
           L # 0 => /\ a[1] = g + 1 /\ b[1] = 1
                    /\ a[L] = n /\ b[L] = Len(S[n]),
           L = 0 => n = g
    PROVE  Carries(Units(F), S, g, n)
<1> DEFINE N == 3 * L
           B == Units(F)
           I(j) == (j + 2) \div 3
           C(j) == ((j - 1) % 3) + 1
           m == [j \in 1..N |-> a[I(j)]]
           f == [j \in 1..N |-> b[I(j)]]
           p == [j \in 1..N |-> C(j)]
<1>1. N \in Nat /\ B = [j \in 1..N |-> F[I(j)][C(j)]]
    BY DEF Units
<1>2. Len(B) = N /\ B \in Seq({B[j] : j \in 1..N})
    <2> DEFINE U == {B[j] : j \in 1..N}
    <2>1. B = [j \in 1..N |-> B[j]] /\ \A j \in 1..N : B[j] \in U
        BY <1>1
    <2> HIDE DEF B, N, U
    <2>2. B \in [1..N -> U]
        BY <2>1
    <2>3. Len(B) = N /\ B \in Seq(U)
        BY <1>1, <2>2
    <2> QED BY <2>3 DEF U
<1>3. \A j \in 1..N : I(j) \in 1..L /\ C(j) \in 1..3 /\ j = 3 * I(j) - 3 + C(j)
    OBVIOUS
<1>4. \A j \in 1..N - 1 :
          /\ C(j) # 3 => I(j + 1) = I(j) /\ C(j + 1) = C(j) + 1
          /\ C(j) = 3 => /\ I(j) \in 1..L - 1
                         /\ I(j + 1) = I(j) + 1 /\ C(j + 1) = 1
    OBVIOUS
<1>5. /\ N = 0 => L = 0
      /\ N # 0 => L # 0 /\ I(1) = 1 /\ C(1) = 1 /\ I(N) = L /\ C(N) = 3
    OBVIOUS
<1> HIDE DEF I, C, B
<1>6. \A j \in 1..N : B[j] = F[I(j)][C(j)]
    BY <1>1
<1>7. \A j \in 1..N : m[j] = a[I(j)] /\ f[j] = b[I(j)] /\ p[j] = C(j)
    OBVIOUS
<1> HIDE DEF m, f, p, N
<1>8. ASSUME NEW j \in 1..N PROVE Fits(B[j], S, m[j], f[j], p[j])
    BY <1>3, <1>6, <1>7
<1>9. ASSUME NEW j \in 1..N - 1
      PROVE  Follows(S, m[j], f[j], p[j], m[j + 1], f[j + 1], p[j + 1])
    <2>1. j \in 1..N /\ j + 1 \in 1..N
        BY <1>1
    <2>2. CASE C(j) # 3
        BY <1>4, <1>7, <2>1, <2>2 DEF Follows
    <2>3. CASE C(j) = 3
        <3>1. Follows(S, a[I(j)], b[I(j)], 3, a[I(j) + 1], b[I(j) + 1], 1)
            BY <1>4, <2>3
        <3> QED BY <1>4, <1>7, <2>1, <2>3, <3>1
    <2> QED BY <2>2, <2>3
<1>10. N # 0 => 1 \in 1..N /\ N \in 1..N
    BY <1>1
<1>11. N # 0 => /\ m[1] = g + 1 /\ f[1] = 1 /\ p[1] = 1
                /\ m[N] = n /\ f[N] = Len(S[n]) /\ p[N] = 3
    BY <1>5, <1>7, <1>10
<1>12. Laid(B, S, g, n, m, f, p)
    BY <1>2, <1>5, <1>8, <1>9, <1>11 DEF Laid
<1> QED BY <1>2, <1>12 DEF Carries, B


\* One stream after another.
LEMMA CarriesMore ==
    ASSUME NEW B, NEW S, NEW g \in Nat, NEW n \in Nat, Carries(B, S, g, n),
           NEW X, NEW l, Carries(X, S, n, l)
    PROVE  Carries(B \o X, S, g, l)
<1>1. PICK U, m, f, p : B \in Seq(U) /\ Laid(B, S, g, n, m, f, p)
    BY DEF Carries
<1>2. PICK V, c, d, e : X \in Seq(V) /\ Laid(X, S, n, l, c, d, e)
    BY DEF Carries
<1> DEFINE W == U \cup V
           C == B \o X
           N == Len(B)
           K == Len(X)
<1>3. /\ C \in Seq(W) /\ Len(C) = N + K /\ N \in Nat /\ K \in Nat
      /\ \A j \in 1..N : C[j] = B[j]
      /\ \A j \in 1..K : C[N + j] = X[j]
    <2>1. B \in Seq(W) /\ X \in Seq(W)
        BY <1>1, <1>2
    <2> HIDE DEF W
    <2> QED BY <2>1
<1> DEFINE r == [j \in 1..N + K |-> IF j <= N THEN m[j] ELSE c[j - N]]
           s == [j \in 1..N + K |-> IF j <= N THEN f[j] ELSE d[j - N]]
           t == [j \in 1..N + K |-> IF j <= N THEN p[j] ELSE e[j - N]]
<1> HIDE DEF C, N, K
<1>4. /\ \A j \in 1..N : r[j] = m[j] /\ s[j] = f[j] /\ t[j] = p[j]
      /\ \A j \in 1..K :
             r[N + j] = c[j] /\ s[N + j] = d[j] /\ t[N + j] = e[j]
    BY <1>3
<1> HIDE DEF r, s, t
<1>5. /\ \A j \in 1..N : Fits(B[j], S, m[j], f[j], p[j])
      /\ \A j \in 1..N - 1 :
             Follows(S, m[j], f[j], p[j], m[j + 1], f[j + 1], p[j + 1])
      /\ N # 0 =>
             /\ m[1] = g + 1 /\ f[1] = 1 /\ p[1] = 1
             /\ m[N] = n /\ f[N] = Len(S[n]) /\ p[N] = 3
      /\ N = 0 => n = g
    BY <1>1 DEF Laid, N
<1>6. /\ \A j \in 1..K : Fits(X[j], S, c[j], d[j], e[j])
      /\ \A j \in 1..K - 1 :
             Follows(S, c[j], d[j], e[j], c[j + 1], d[j + 1], e[j + 1])
      /\ K # 0 =>
             /\ c[1] = n + 1 /\ d[1] = 1 /\ e[1] = 1
             /\ c[K] = l /\ d[K] = Len(S[l]) /\ e[K] = 3
      /\ K = 0 => l = n
    BY <1>2 DEF Laid, K
<1>7. \A j \in 1..N + K : j \in 1..N \/ \E i \in 1..K : j = N + i
    <2>1. ASSUME NEW j \in 1..N + K, j \notin 1..N
          PROVE  j - N \in 1..K /\ j = N + (j - N)
        BY <1>3, <2>1
    <2> QED BY <2>1
<1>8. ASSUME NEW j \in 1..N + K PROVE Fits(C[j], S, r[j], s[j], t[j])
    <2>1. CASE j \in 1..N
        BY <1>3, <1>4, <1>5, <2>1
    <2>2. CASE \E i \in 1..K : j = N + i
        <3>1. PICK i \in 1..K : j = N + i
            BY <2>2
        <3>2. Fits(X[i], S, c[i], d[i], e[i])
            BY <1>6
        <3>3. /\ C[j] = X[i] /\ r[j] = c[i] /\ s[j] = d[i] /\ t[j] = e[i]
            BY <1>3, <1>4, <3>1
        <3> QED BY <3>2, <3>3
    <2> QED BY <1>7, <2>1, <2>2
<1>9. ASSUME NEW j \in 1..N + K - 1
      PROVE  Follows(S, r[j], s[j], t[j], r[j + 1], s[j + 1], t[j + 1])
    <2>1. CASE j \in 1..N - 1
        <3>1. j \in 1..N /\ j + 1 \in 1..N
            BY <1>3, <2>1
        <3>2. Follows(S, m[j], f[j], p[j], m[j + 1], f[j + 1], p[j + 1])
            BY <1>5, <2>1
        <3> QED BY <1>4, <3>1, <3>2
    <2>2. CASE j = N
        <3>1. N \in 1..N /\ 1 \in 1..K /\ N # 0 /\ K # 0
            BY <1>3, <2>2
        <3>2. /\ r[j] = n /\ s[j] = Len(S[n]) /\ t[j] = 3
              /\ r[j + 1] = n + 1 /\ s[j + 1] = 1 /\ t[j + 1] = 1
            BY <1>4, <1>5, <1>6, <2>2, <3>1
        <3> QED BY <3>2 DEF Follows
    <2>3. CASE j \notin 1..N
        <3> DEFINE i == j - N
        <3>1. i \in 1..K - 1 /\ i \in 1..K /\ i + 1 \in 1..K /\ N + i = j
              /\ N + (i + 1) = j + 1
            BY <1>3, <2>3
        <3> HIDE DEF i
        <3>2. Follows(S, c[i], d[i], e[i], c[i + 1], d[i + 1], e[i + 1])
            BY <1>6, <3>1
        <3>3. /\ r[j] = c[i] /\ s[j] = d[i] /\ t[j] = e[i]
              /\ r[j + 1] = c[i + 1] /\ s[j + 1] = d[i + 1]
              /\ t[j + 1] = e[i + 1]
            <4>1. /\ r[N + i] = c[i] /\ s[N + i] = d[i] /\ t[N + i] = e[i]
                BY <1>4, <3>1
            <4>2. /\ r[N + (i + 1)] = c[i + 1] /\ s[N + (i + 1)] = d[i + 1]
                  /\ t[N + (i + 1)] = e[i + 1]
                BY <1>4, <3>1
            <4> QED BY <3>1, <4>1, <4>2
        <3> QED BY <3>2, <3>3
    <2>4. j \in 1..N - 1 \/ j = N \/ j \notin 1..N
        BY <1>3
    <2> QED BY <2>1, <2>2, <2>3, <2>4
<1>10. N + K # 0 => /\ r[1] = g + 1 /\ s[1] = 1 /\ t[1] = 1
                    /\ r[N + K] = l /\ s[N + K] = Len(S[l]) /\ t[N + K] = 3
    <2>1. CASE N # 0 /\ K # 0
        <3>1. 1 \in 1..N /\ K \in 1..K
            BY <1>3, <2>1
        <3> QED BY <1>4, <1>5, <1>6, <2>1, <3>1
    <2>2. CASE N # 0 /\ K = 0
        <3>1. 1 \in 1..N /\ N \in 1..N /\ N + K = N /\ l = n
            BY <1>3, <1>6, <2>2
        <3> QED BY <1>4, <1>5, <2>2, <3>1
    <2>3. CASE N = 0 /\ K # 0
        <3>1. 1 \in 1..K /\ K \in 1..K /\ N + 1 = 1 /\ n = g
            BY <1>3, <1>5, <2>3
        <3> QED BY <1>4, <1>6, <2>3, <3>1
    <2> QED BY <1>3, <2>1, <2>2, <2>3
<1>11. N + K = 0 => l = g
    BY <1>3, <1>5, <1>6
<1>12. Laid(C, S, g, l, r, s, t)
    BY <1>3, <1>8, <1>9, <1>10, <1>11 DEF Laid
<1> QED BY <1>3, <1>12 DEF Carries, C


\* A read that does not end inside a message takes whole messages, and
\* leaves whole messages.
LEMMA WholeRead ==
    ASSUME NEW B, NEW S, NEW g, NEW n, Carries(B, S, g, n),
           NEW k \in 1..Len(B), Cut(B, k) = {}
    PROVE  \E i : /\ Carries(SubSeq(B, 1, k), S, g, i)
                  /\ Carries(SubSeq(B, k + 1, Len(B)), S, i, n)
<1>1. PICK U, m, f, p : B \in Seq(U) /\ Laid(B, S, g, n, m, f, p)
    BY DEF Carries
<1> DEFINE N == Len(B)
           P == SubSeq(B, 1, k)
           R == SubSeq(B, k + 1, N)
           K == N - k
<1>2. N \in Nat /\ k \in Nat /\ k <= N /\ k # 0 /\ K \in Nat /\ N = k + K
    BY <1>1
<1>3. /\ P \in Seq(U) /\ Len(P) = k
      /\ \A j \in 1..k : P[j] = B[j]
    BY <1>1
<1>4. /\ R \in Seq(U) /\ Len(R) = K
      /\ \A j \in 1..K : R[j] = B[k + j]
    <2>1. k + 1 \in 1..N + 1
        BY <1>2
    <2> DEFINE z == k + 1
    <2>2. z \in 1..N + 1 /\ K = N - z + 1 /\ \A j \in 1..K : z + j - 1 = k + j
        BY <1>2
    <2> HIDE DEF z
    <2>3. /\ SubSeq(B, z, N) \in Seq(U)
          /\ Len(SubSeq(B, z, N)) = N - z + 1
          /\ \A j \in 1..N - z + 1 : SubSeq(B, z, N)[j] = B[z + j - 1]
        BY <1>1, <2>2
    <2> QED BY <2>2, <2>3 DEF z
<1>5. /\ \A j \in 1..N : Fits(B[j], S, m[j], f[j], p[j])
      /\ \A j \in 1..N - 1 :
             Follows(S, m[j], f[j], p[j], m[j + 1], f[j + 1], p[j + 1])
      /\ m[1] = g + 1 /\ f[1] = 1 /\ p[1] = 1
      /\ m[N] = n /\ f[N] = Len(S[n]) /\ p[N] = 3
    BY <1>1, <1>2 DEF Laid
<1> HIDE DEF P, R, N, K
<1>6. /\ f[k] = Len(S[m[k]]) /\ p[k] = 3
      /\ k # N => m[k + 1] = m[k] + 1 /\ f[k + 1] = 1 /\ p[k + 1] = 1
    <2>1. CASE k = N
        BY <1>5, <2>1
    <2>2. CASE k # N
        <3>1. k + 1 \in 1..N /\ k \in 1..N - 1 /\ k \in 1..N /\ k < N
            BY <1>2, <2>2
        <3>2. B[k + 1].first
            BY <3>1 DEF Cut, N
        <3>3. p[k + 1] = 1 /\ f[k + 1] = 1
            <4>1. Fits(B[k + 1], S, m[k + 1], f[k + 1], p[k + 1])
                BY <1>5, <3>1
            <4> QED BY <3>2, <4>1 DEF Fits
        <3>4. Follows(S, m[k], f[k], p[k], m[k + 1], f[k + 1], p[k + 1])
            BY <1>5, <3>1
        <3>5. p[k] \in 1..3 /\ f[k] \in 1..Len(S[m[k]])
            <4>1. Fits(B[k], S, m[k], f[k], p[k])
                BY <1>5, <3>1
            <4> QED BY <4>1 DEF Fits
        <3>6. p[k] = 3
            BY <3>3, <3>4, <3>5 DEF Follows
        <3>7. f[k] = Len(S[m[k]])
            BY <3>3, <3>4, <3>5, <3>6 DEF Follows
        <3> QED BY <3>3, <3>4, <3>6, <3>7 DEF Follows
    <2> QED BY <2>1, <2>2
<1>7. Laid(P, S, g, m[k], m, f, p)
    <2>1. \A j \in 1..k : j \in 1..N
        BY <1>2
    <2>2. \A j \in 1..k - 1 : j \in 1..N - 1
        BY <1>2
    <2>3. \A j \in 1..k : Fits(P[j], S, m[j], f[j], p[j])
        BY <1>3, <1>5, <2>1
    <2>4. \A j \in 1..k - 1 :
              Follows(S, m[j], f[j], p[j], m[j + 1], f[j + 1], p[j + 1])
        BY <1>5, <2>2
    <2> QED BY <1>2, <1>3, <1>5, <1>6, <2>3, <2>4 DEF Laid
<1> DEFINE r == [j \in 1..K |-> m[k + j]]
           s == [j \in 1..K |-> f[k + j]]
           t == [j \in 1..K |-> p[k + j]]
<1>8. \A j \in 1..K : r[j] = m[k + j] /\ s[j] = f[k + j] /\ t[j] = p[k + j]
    OBVIOUS
<1> HIDE DEF r, s, t
<1>9. Laid(R, S, m[k], n, r, s, t)
    <2>1. \A j \in 1..K : k + j \in 1..N
        BY <1>2
    <2>2. \A j \in 1..K - 1 : /\ k + j \in 1..N - 1 /\ j \in 1..K
                              /\ j + 1 \in 1..K /\ k + (j + 1) = k + j + 1
        BY <1>2
    <2>3. ASSUME NEW j \in 1..K PROVE Fits(R[j], S, r[j], s[j], t[j])
        <3>1. Fits(B[k + j], S, m[k + j], f[k + j], p[k + j])
            BY <1>5, <2>1
        <3> QED BY <1>4, <1>8, <3>1
    <2>4. ASSUME NEW j \in 1..K - 1
          PROVE  Follows(S, r[j], s[j], t[j], r[j + 1], s[j + 1], t[j + 1])
        <3> DEFINE i == k + j
        <3>1. i \in 1..N - 1 /\ j \in 1..K /\ j + 1 \in 1..K
              /\ k + (j + 1) = i + 1
            BY <2>2
        <3>2. r[j] = m[i] /\ s[j] = f[i] /\ t[j] = p[i]
            BY <1>8, <3>1
        <3> HIDE DEF i
        <3>3. r[j + 1] = m[i + 1] /\ s[j + 1] = f[i + 1] /\ t[j + 1] = p[i + 1]
            BY <1>8, <3>1
        <3>4. Follows(S, m[i], f[i], p[i], m[i + 1], f[i + 1], p[i + 1])
            BY <1>5, <3>1
        <3> QED BY <3>2, <3>3, <3>4
    <2>5. K # 0 => /\ r[1] = m[k] + 1 /\ s[1] = 1 /\ t[1] = 1
                   /\ r[K] = n /\ s[K] = Len(S[n]) /\ t[K] = 3
        <3>1. K # 0 => /\ 1 \in 1..K /\ K \in 1..K /\ k + K = N /\ k # N
            BY <1>2
        <3> QED BY <1>5, <1>6, <1>8, <3>1
    <2>6. K = 0 => n = m[k]
        BY <1>2, <1>5
    <2> QED BY <1>4, <2>3, <2>4, <2>5, <2>6 DEF Laid
<1>10. Carries(P, S, g, m[k]) /\ Carries(R, S, m[k], n)
    BY <1>3, <1>4, <1>7, <1>9 DEF Carries
<1> QED BY <1>10 DEF P, R, N


\* What EncodeWSFrameMessage makes of a fragment is that fragment.
LEMMA FrameFits ==
    ASSUME NEW S, NEW a, a \in 1..Len(S), NEW L \in Nat, L <= 3,
           Len(S[a]) = L, NEW b \in 1..L, NEW op \in DataOpcodes,
           NEW d, S[a][b] = d, NEW first, b # 1 => first = FALSE,
           NEW fin, b = L => fin = TRUE, b # L => fin = FALSE,
           NEW F, F = <<Unit("head", first, [op |-> op, fin |-> fin]),
                        Unit("mask", FALSE, b),
                        Unit("data", FALSE, Masked(d, b))>>
    PROVE  \A c \in 1..3 : Fits(F[c], S, a, b, c)
<1>1. ASSUME NEW u, u = Unit("head", first, [op |-> op, fin |-> fin])
      PROVE  Fits(u, S, a, b, 1)
    <2>1. /\ u.t = "head" /\ u.v.op = op /\ u.v.fin = fin
          /\ u.first = first
        BY <1>1 DEF Unit
    <2> QED BY <2>1 DEF Fits
<1>2. ASSUME NEW u, u = Unit("mask", FALSE, b) PROVE Fits(u, S, a, b, 2)
    <2>1. u.t = "mask" /\ u.v = b /\ u.first = FALSE
        BY <1>2 DEF Unit
    <2> QED BY <2>1 DEF Fits
<1>3. ASSUME NEW u, u = Unit("data", FALSE, Masked(d, b))
      PROVE  Fits(u, S, a, b, 3)
    <2>1. u.t = "data" /\ u.v = Masked(d, b) /\ u.first = FALSE
        BY <1>3 DEF Unit
    <2> QED BY <2>1 DEF Fits
<1>4. /\ F[1] = Unit("head", first, [op |-> op, fin |-> fin])
      /\ F[2] = Unit("mask", FALSE, b)
      /\ F[3] = Unit("data", FALSE, Masked(d, b))
    OBVIOUS
<1>5. Fits(F[1], S, a, b, 1) /\ Fits(F[2], S, a, b, 2)
      /\ Fits(F[3], S, a, b, 3)
    BY <1>1, <1>2, <1>3, <1>4
<1>6. \A c \in 1..3 : c = 1 \/ c = 2 \/ c = 3
    OBVIOUS
<1> QED BY <1>5, <1>6

LEMMA Encoded ==
    ASSUME NEW S, Len(S) \in Nat, NEW n \in Nat, n + 1 <= Len(S),
           NEW D, NEW frags \in Seq([op : DataOpcodes, data : D]),
           Len(frags) \in 1..3,
           S[n + 1] = [i \in 1..Len(frags) |-> frags[i].data]
    PROVE  Carries(Encode(frags), S, n, n + 1)
<1> DEFINE L == Len(frags)
           z == n + 1
           F == [i \in 1..L |->
                    <<Unit("head", i = 1, [op |-> frags[i].op,
                                           fin |-> i = Len(frags)]),
                      Unit("mask", FALSE, i),
                      Unit("data", FALSE, Masked(frags[i].data, i))>>]
           a == [i \in 1..L |-> z]
           b == [i \in 1..L |-> i]
<1>1. L \in Nat /\ L <= 3 /\ L # 0 /\ z \in 1..Len(S) /\ Len(F) = L
      /\ Len(S[z]) = L
    OBVIOUS
<1>2. ASSUME NEW i \in 1..L
      PROVE  \A c \in 1..3 : Fits(F[i][c], S, z, i, c)
    <2> DEFINE op == frags[i].op
               d == frags[i].data
               first == i = 1
               fin == i = Len(frags)
               G == <<Unit("head", first, [op |-> op, fin |-> fin]),
                      Unit("mask", FALSE, i),
                      Unit("data", FALSE, Masked(d, i))>>
    <2>1. op \in DataOpcodes /\ S[z][i] = d
        <3> DEFINE T == [op : DataOpcodes, data : D]
        <3>1. frags[i] \in T
            <4>1. frags \in Seq(T)
                OBVIOUS
            <4> HIDE DEF T
            <4> QED BY <4>1
        <3>2. op \in DataOpcodes
            BY <3>1
        <3>3. S[z][i] = d
            OBVIOUS
        <3> QED BY <3>2, <3>3
    <2>2. i # 1 => first = FALSE
        OBVIOUS
    <2>3. (i = L => fin = TRUE) /\ (i # L => fin = FALSE)
        BY Zenon
    <2>4. F[i] = G
        OBVIOUS
    <2> HIDE DEF F, G, fin, first, op, d, z, L
    <2>5. \A c \in 1..3 : Fits(G[c], S, z, i, c)
        BY <1>1, <2>1, <2>2, <2>3, FrameFits DEF G
    <2> QED BY <2>4, <2>5
<1>3. \A i \in 1..L : a[i] = z /\ b[i] = i
    OBVIOUS
<1>4. Encode(frags) = Units(F)
    BY DEF Encode
<1> HIDE DEF F, a, b, L, z
<1>5. \A i \in 1..L : \A c \in 1..3 : Fits(F[i][c], S, a[i], b[i], c)
    BY <1>2, <1>3
<1>6. \A i \in 1..L - 1 : Follows(S, a[i], b[i], 3, a[i + 1], b[i + 1], 1)
    <2>1. ASSUME NEW i \in 1..L - 1
          PROVE  i \in 1..L /\ i + 1 \in 1..L /\ i # L
        BY <1>1
    <2> QED BY <1>1, <1>3, <2>1 DEF Follows
<1>7. 1 \in 1..L /\ L \in 1..L
    BY <1>1
<1>8. Carries(Units(F), S, n, z)
    <2>1. a[1] = n + 1 /\ b[1] = 1 /\ a[L] = z /\ b[L] = Len(S[z])
        BY <1>1, <1>3, <1>7 DEF z
    <2> QED BY <1>1, <1>5, <1>6, <2>1, UnitsLaid
<1> QED BY <1>4, <1>8 DEF z

\* A message of one fragment.
LEMMA OnlyFrameFits ==
    ASSUME NEW S, NEW a, a \in 1..Len(S), Len(S[a]) = 1, NEW d, S[a][1] = d,
           NEW F, F = <<Unit("head", TRUE, [op |-> "TEXT_FRAME",
                                            fin |-> TRUE]),
                        Unit("mask", FALSE, 1),
                        Unit("data", FALSE, Masked(d, 1))>>
    PROVE  \A c \in 1..3 : Fits(F[c], S, a, 1, c)
<1> DEFINE op == "TEXT_FRAME"
           b == 1
           L == 1
           t == TRUE
<1>1. /\ op \in DataOpcodes /\ L \in Nat /\ L <= 3 /\ b \in 1..L
      /\ Len(S[a]) = L /\ S[a][b] = d
      /\ F = <<Unit("head", t, [op |-> op, fin |-> t]),
               Unit("mask", FALSE, b), Unit("data", FALSE, Masked(d, b))>>
    BY DEF DataOpcodes
<1>2. b = 1 /\ b = L /\ t = TRUE
    OBVIOUS
<1> HIDE DEF op, b, L, t
<1>3. \A c \in 1..3 : Fits(F[c], S, a, b, c)
    BY <1>1, <1>2, FrameFits
<1> QED BY <1>3 DEF b

\* What the echo sends back for the messages of S behind n, up to l.
LEMMA Replied ==
    ASSUME found, NEW W, NEW G \in Seq(W), NEW n \in Nat, NEW l \in n..Len(G),
           NEW E, E = [i \in 1..Len(G) |-> <<G[i]>>],
           NEW M, Len(M) = l - n, \A i \in 1..l - n : M[i] = G[n + i]
    PROVE  Carries(Units([i \in 1..Len(M) |-> Reply(M[i])]), E, n, l)
<1> DEFINE L == Len(M)
           F == [i \in 1..L |-> Reply(M[i])]
           a == [i \in 1..L |-> n + i]
           b == [i \in 1..L |-> 1]
<1>1. /\ L \in Nat /\ L = l - n /\ Len(F) = L
      /\ \A i \in 1..L : M[i] = G[n + i] /\ n + i \in 1..Len(G)
    OBVIOUS
<1>2. Len(E) = Len(G) /\ Len(G) \in Nat /\ l <= Len(G)
    OBVIOUS
<1>3. \A i \in 1..Len(G) : E[i] = <<G[i]>>
    OBVIOUS
<1>4. ASSUME NEW msg
      PROVE  Reply(msg) = <<Unit("head", TRUE, [op |-> "TEXT_FRAME",
                                                fin |-> TRUE]),
                            Unit("mask", FALSE, 1),
                            Unit("data", FALSE, Masked(msg, 1))>>
    <2> DEFINE r == [op |-> "TEXT_FRAME", data |-> msg]
               fr == <<r>>
               Q == [i \in 1..1 |->
                        <<Unit("head", i = 1, [op |-> fr[i].op,
                                               fin |-> i = 1]),
                          Unit("mask", FALSE, i),
                          Unit("data", FALSE, Masked(fr[i].data, i))>>]
               x == Unit("head", TRUE, [op |-> "TEXT_FRAME", fin |-> TRUE])
               y == Unit("mask", FALSE, 1)
               v == Unit("data", FALSE, Masked(msg, 1))
    <2>1. Len(fr) = 1 /\ fr[1].op = "TEXT_FRAME" /\ fr[1].data = msg
        OBVIOUS
    <2> HIDE DEF fr
    <2>2. Encode(fr) = Units(Q)
        BY <2>1 DEF Encode
    <2>3. Unit("head", 1 = 1, [op |-> "TEXT_FRAME", fin |-> 1 = 1]) = x
        BY Zenon DEF Unit
    <2>4. Len(Q) = 1 /\ Q[1] = <<x, y, v>>
        <3>1. Q[1] = <<Unit("head", 1 = 1, [op |-> fr[1].op,
                                           fin |-> 1 = 1]), y,
                     Unit("data", FALSE, Masked(fr[1].data, 1))>>
            <4>1. 1 \in 1..1
                OBVIOUS
            <4> QED BY <4>1, Zenon
        <3>2. Len(Q) = 1
            OBVIOUS
        <3>3. Q[1] = <<Unit("head", 1 = 1, [op |-> "TEXT_FRAME",
                                           fin |-> 1 = 1]), y, v>>
            BY <2>1, <3>1, Zenon
        <3> HIDE DEF Q, x, y, v
        <3> QED BY <2>3, <3>2, <3>3, Zenon
    <2> HIDE DEF Q, x, y, v
    <2>5. Units(Q) = <<x, y, v>>
        <3>1. \A j \in 1..3 : /\ (j + 2) \div 3 = 1
                               /\ ((j - 1) % 3) + 1 = j
            OBVIOUS
        <3>2. 3 * Len(Q) = 3
            BY <2>4
        <3>3. Units(Q) = [j \in 1..3 |-> Q[(j + 2) \div 3][((j - 1) % 3) + 1]]
            BY <3>2 DEF Units
        <3>4. Units(Q) = [j \in 1..3 |-> <<x, y, v>>[j]]
            BY <2>4, <3>1, <3>3
        <3> QED BY <3>4
    <2> QED BY <2>2, <2>5 DEF Reply, fr, x, y, v
<1>5. ASSUME NEW i \in 1..L
      PROVE  \A c \in 1..3 : Fits(F[i][c], E, n + i, 1, c)
    <2> DEFINE z == n + i
               d == M[i]
               R == Reply(d)
    <2>1. /\ z \in 1..Len(E) /\ Len(E[z]) = 1 /\ E[z][1] = d
          /\ F[i] = R
        BY <1>1, <1>2, <1>3
    <2>2. R = <<Unit("head", TRUE, [op |-> "TEXT_FRAME", fin |-> TRUE]),
                Unit("mask", FALSE, 1),
                Unit("data", FALSE, Masked(d, 1))>>
        BY <1>4
    <2> HIDE DEF z, d, R, F
    <2>4. \A c \in 1..3 : Fits(R[c], E, z, 1, c)
        BY <2>1, <2>2, OnlyFrameFits
    <2> QED BY <2>1, <2>4 DEF z
<1>6. \A i \in 1..L : a[i] = n + i /\ b[i] = 1
    OBVIOUS
<1> HIDE DEF F, a, b, L
<1>7. \A i \in 1..L : \A c \in 1..3 : Fits(F[i][c], E, a[i], b[i], c)
    BY <1>5, <1>6
<1>8. ASSUME NEW i \in 1..L
      PROVE  Len(E[n + i]) = 1
    BY <1>1, <1>3
<1>9. ASSUME NEW i \in 1..L - 1
      PROVE  Follows(E, a[i], b[i], 3, a[i + 1], b[i + 1], 1)
    <2>1. i \in 1..L /\ i + 1 \in 1..L /\ n + (i + 1) = n + i + 1
        BY <1>1
    <2>2. a[i] = n + i /\ a[i + 1] = n + i + 1 /\ b[i] = 1 /\ b[i + 1] = 1
        BY <1>6, <2>1
    <2> QED BY <1>8, <2>1, <2>2 DEF Follows
<1>10. L # 0 => a[1] = n + 1 /\ b[1] = 1 /\ a[L] = l /\ b[L] = Len(E[l])
    <2>1. L # 0 => 1 \in 1..L /\ L \in 1..L /\ n + L = l
        BY <1>1
    <2> QED BY <1>6, <1>8, <2>1
<1>11. L = 0 => l = n
    BY <1>1
<1>12. Carries(Units(F), E, n, l)
    BY <1>1, <1>7, <1>9, <1>10, <1>11, UnitsLaid
<1> QED BY <1>12 DEF F, L


-----------------------------------------------------------------------------
(* The handshake and the conversation.                                     *)

Talk == Seq(Nat \X Nat)
Echo(q) == [i \in 1..Len(q) |-> <<q[i]>>]

\* Between two steps neither side has anything left to read.
ServerReady ==
    /\ srv = [entry |-> srv.entry, path |-> srv.path, parser |-> NewParser,
              state |-> "Connected", buf |-> <<>>]
    /\ srv.entry \in {"none", "TCP", "WEBSOCKET"}
ClientReady ==
    /\ ws = [state |-> ws.state, m_connect |-> ws.m_connect,
             conn |-> ws.conn, msgs |-> ws.msgs, buf |-> <<>>]
    /\ ws.m_connect \in BOOLEAN

\* What has been said, received and echoed.
Histories ==
    /\ said \in Seq(Talk) /\ got \in Seq(Talk) /\ echoed \in Seq(Seq(Talk))
    /\ Len(got) <= Len(said) /\ \A i \in 1..Len(got) : got[i] = said[i]
    /\ Len(echoed) <= Len(got)
    /\ \A i \in 1..Len(echoed) : echoed[i] = <<got[i]>>

\* Before the connection is up, during the handshake, and after it.
Silent ==
    /\ ws.m_connect = FALSE /\ user = "idle"
    /\ said = <<>> /\ ws.msgs = <<>>

Fresh ==
    /\ ws.state = "NONE" /\ link = "new" /\ srv.entry = "none"
    /\ up = <<>> /\ down = <<>> /\ Silent

Shaking ==
    /\ ws.state = "HTTP" /\ link \in {"up", "down"} /\ Silent
    /\ \/ up = Request /\ srv.entry # "WEBSOCKET" /\ down = <<>>
       \/ up = <<>> /\ down = <<>>
       \/ /\ up = <<>> /\ down = Response("101")
          /\ srv.entry = "WEBSOCKET" /\ link = "up"

Fragments == [op : DataOpcodes, data : Nat \X Nat]

\* The last message said is still to be sent.
Pending ==
    /\ Len(said) >= 1 /\ Len(ws.msgs) >= 1
    /\ said[Len(said)] = [i \in 1..Len(ws.msgs) |-> ws.msgs[i].data]

Talking ==
    /\ ws.state = "WS" /\ link \in {"up", "down"} /\ srv.entry # "TCP"
    /\ link = "up" => srv.entry = "WEBSOCKET"
    /\ ws.m_connect = TRUE => link = "up"
    /\ ws.msgs \in Seq(Fragments) /\ Len(ws.msgs) <= 3
    /\ user = "send" => Pending
    /\ \E n : /\ Carries(up, said, Len(got), n)
              /\ link = "up" /\ user = "send" => n + 1 = Len(said)
              /\ link = "up" /\ user # "send" => n = Len(said)
    /\ \E n : /\ Carries(down, Echo(got), Len(echoed), n)
              /\ link = "up" => n = Len(got)

Sound == /\ ServerReady /\ ClientReady /\ Histories /\ IsFiniteSet(offer)
         /\ Fresh \/ Shaking \/ Talking

WSInv == causes \subseteq {"closed"} => Sound

LEMMA WSStart == WSInit => WSInv
<1> SUFFICES ASSUME WSInit PROVE Sound
    BY DEF WSInv
<1> USE DEF WSInit
<1>1. ServerReady
    BY DEF ServerReady
<1>2. ClientReady
    BY DEF ClientReady
<1>3. Histories
    BY DEF Histories
<1>4. Fresh
    BY DEF Fresh, Silent
<1>5. IsFiniteSet(offer)
    <2>1. IsFiniteSet({"Upgrade", "Connection", "Sec-WebSocket-Key"})
        <3>1. IsFiniteSet({"Upgrade"}) /\ IsFiniteSet({"Connection"})
              /\ IsFiniteSet({"Sec-WebSocket-Key"})
            BY FS_Singleton
        <3>2. IsFiniteSet({"Upgrade"} \cup {"Connection"})
            BY <3>1, FS_Union
        <3>3. IsFiniteSet(({"Upgrade"} \cup {"Connection"}) \cup
                          {"Sec-WebSocket-Key"})
            BY <3>1, <3>2, FS_Union
        <3>4. ({"Upgrade"} \cup {"Connection"}) \cup {"Sec-WebSocket-Key"} =
                  {"Upgrade", "Connection", "Sec-WebSocket-Key"}
            OBVIOUS
        <3> QED BY <3>3, <3>4
    <2> QED BY <2>1, FS_Subset
<1> QED BY <1>1, <1>2, <1>3, <1>4, <1>5 DEF Sound

\* The lines of the client's request: a request line, headers and an end,
\* in one piece.
LEMMA RequestShape ==
    ASSUME IsFiniteSet(offer)
    PROVE  /\ \E U : Request \in Seq(U)
           /\ Len(Request) \in Nat /\ Len(Request) >= 2
           /\ Request[1].v.kind = "request"
           /\ Request[Len(Request)].v.kind # "header"
           /\ \A i \in 2..Len(Request) - 1 : Request[i].v.kind = "header"
           /\ \A i \in 2..Len(Request) : Request[i].first = FALSE
<1> DEFINE c == Cardinality(offer)
           a == Unit("line", TRUE, RequestLine("/ws", 11))
           H == [i \in 1..c |-> Unit("line", FALSE,
                     HeaderLine(SetToSeq(offer)[i], "websocket"))]
           z == Unit("line", FALSE, EndLine)
           U == {a, z} \cup {H[i] : i \in 1..c}
<1>1. c \in Nat
    BY FS_CardinalityType
<1>2. Request = <<a>> \o H \o <<z>>
    BY DEF Request
<1>3. a.v.kind = "request" /\ z.v.kind # "header" /\ z.first = FALSE
    BY DEF Unit, RequestLine, EndLine
<1>4. \A i \in 1..c : H[i].v.kind = "header" /\ H[i].first = FALSE
    BY DEF Unit, HeaderLine
<1> HIDE DEF c, a, z
<1>5. H = [i \in 1..c |-> H[i]] /\ \A i \in 1..c : H[i] \in U
    OBVIOUS
<1>6. a \in U /\ z \in U
    OBVIOUS
<1> HIDE DEF H, U
<1>7. H \in Seq(U) /\ Len(H) = c
    <2>1. H \in [1..c -> U]
        BY <1>5
    <2> QED BY <1>1, <2>1
<1>8. /\ Request \in Seq(U) /\ Len(Request) = c + 2
      /\ Request[1] = a /\ Request[c + 2] = z
      /\ \A i \in 1..c : Request[i + 1] = H[i]
    BY <1>1, <1>2, <1>6, <1>7
<1>9. \A i \in 2..c + 1 : i - 1 \in 1..c /\ i - 1 + 1 = i
    BY <1>1
<1>10. \A i \in 2..c + 1 : /\ Request[i].v.kind = "header"
                           /\ Request[i].first = FALSE
    <2>1. ASSUME NEW i \in 2..c + 1 PROVE Request[i] = H[i - 1]
        BY <1>8, <1>9
    <2> QED BY <1>4, <1>9, <2>1
<1>11. /\ \A i \in 2..c + 2 : i = c + 2 \/ i \in 2..c + 1
       /\ c + 2 - 1 = c + 1 /\ c + 2 \in Nat /\ c + 2 >= 2
    BY <1>1
<1>12. \A i \in 2..c + 2 : Request[i].first = FALSE
    BY <1>3, <1>8, <1>10, <1>11
<1> QED BY <1>3, <1>8, <1>10, <1>11, <1>12


LEMMA ClientRecord ==
    ASSUME NEW st, NEW mc \in BOOLEAN, NEW cn, NEW ms,
           ws' = [state |-> st, m_connect |-> mc, conn |-> cn,
                  msgs |-> ms, buf |-> <<>>]
    PROVE  /\ ClientReady' /\ ws'.state = st /\ ws'.m_connect = mc
           /\ ws'.msgs = ms
<1>1. /\ ws'.state = st /\ ws'.m_connect = mc /\ ws'.msgs = ms
      /\ ws'.conn = cn
    OBVIOUS
<1> QED BY <1>1 DEF ClientReady

LEMMA ClientUpKeeps == ASSUME Sound, ClientUp PROVE Sound'
<1> USE DEF ClientUp
<1>1. ServerReady'
    BY DEF Sound, ServerReady
<1>2. ClientReady' /\ ws'.state = "HTTP" /\ ws'.m_connect = ws.m_connect
      /\ ws'.msgs = ws.msgs
    <2> DEFINE mc == ws.m_connect
               ms == ws.msgs
               st == ws.state
               cn == ws.conn
    <2>1. /\ ws = [state |-> st, m_connect |-> mc, conn |-> cn,
                   msgs |-> ms, buf |-> <<>>]
          /\ mc \in BOOLEAN
        BY DEF Sound, ClientReady
    <2> HIDE DEF mc, ms, st, cn
    <2>2. ws' = [state |-> "HTTP", m_connect |-> mc, conn |-> TRUE,
                 msgs |-> ms, buf |-> <<>>]
        BY <2>1
    <2>3. ClientReady' /\ ws'.state = "HTTP" /\ ws'.m_connect = mc
          /\ ws'.msgs = ms
        BY <2>1, <2>2, ClientRecord
    <2> QED BY <2>3 DEF mc, ms
<1>3. Histories'
    BY DEF Sound, Histories, history
<1>4. Fresh
    BY DEF Sound, Shaking, Talking
<1>5. Silent'
    BY <1>2, <1>4 DEF Fresh, Silent, history
<1>6. Request' = Request
    BY DEF Request
<1>7. Shaking'
    <2>1. up' = Request' /\ srv'.entry # "WEBSOCKET" /\ down' = <<>>
        BY <1>4, <1>6 DEF Fresh
    <2>2. link' \in {"up", "down"}
        OBVIOUS
    <2> QED BY <1>2, <1>5, <2>1, <2>2 DEF Shaking
<1>8. IsFiniteSet(offer')
    BY DEF Sound
<1> QED BY <1>1, <1>2, <1>3, <1>7, <1>8 DEF Sound

LEMMA ServerUpKeeps == ASSUME Sound, ServerUp PROVE Sound'
<1> USE DEF ServerUp
<1>1. ServerReady' /\ srv'.entry = "TCP"
    BY DEF Sound, ServerReady
<1>2. ClientReady'
    BY DEF Sound, ClientReady
<1>3. Histories'
    BY DEF Sound, Histories, history
<1>4. Shaking
    BY DEF Sound, Fresh, Talking
<1>5. Silent'
    BY <1>4 DEF Shaking, Silent, history
<1>6. Request' = Request
    BY DEF Request
<1>7. Shaking'
    BY <1>1, <1>4, <1>5, <1>6 DEF Shaking
<1>8. IsFiniteSet(offer')
    BY DEF Sound
<1> QED BY <1>1, <1>2, <1>3, <1>7, <1>8 DEF Sound

LEMMA ClientDownKeeps == ASSUME Sound, ClientDown PROVE Sound'
<1> USE DEF ClientDown
<1>1. ServerReady'
    BY DEF Sound, ServerReady
<1>2. ClientReady' /\ ws'.m_connect = FALSE /\ ws'.state = ws.state
      /\ ws'.msgs = ws.msgs
    <2> DEFINE st == ws.state
               cn == ws.conn /\ ~ws.m_connect
               mo == ws.m_connect
               co == ws.conn
               ms == ws.msgs
               no == FALSE
    <2>0. ws = [state |-> st, m_connect |-> mo, conn |-> co,
                msgs |-> ms, buf |-> <<>>]
        BY DEF Sound, ClientReady
    <2>1. ws' = [ws EXCEPT !.m_connect = FALSE, !.conn = cn]
        OBVIOUS
    <2> HIDE DEF cn, st, ms, mo, co, ClientDown
    <2>2. ws' = [state |-> st, m_connect |-> no, conn |-> cn,
                 msgs |-> ms, buf |-> <<>>] /\ no \in BOOLEAN
        BY <2>0, <2>1
    <2> HIDE DEF no
    <2>3. ClientReady' /\ ws'.state = st /\ ws'.m_connect = no
          /\ ws'.msgs = ms
        BY <2>2, ClientRecord
    <2> QED BY <2>3 DEF st, ms, no
<1>3. Histories'
    BY DEF Sound, Histories, history
<1>4. Request' = Request
    BY DEF Request
<1>5. ASSUME Shaking PROVE Shaking'
    <2>1. Silent'
        BY <1>2, <1>5 DEF Shaking, Silent, history
    <2> QED BY <1>2, <1>4, <1>5, <2>1 DEF Shaking
<1>6. ASSUME Talking PROVE Talking'
    <2>1. /\ ws'.state = "WS" /\ link' \in {"up", "down"} /\ srv'.entry # "TCP"
          /\ link' # "up" /\ ws'.m_connect # TRUE
          /\ ws'.msgs \in Seq(Fragments) /\ Len(ws'.msgs) <= 3
        BY <1>2, <1>6 DEF Talking
    <2>2. (user = "send" => Pending)'
        BY <1>2, <1>6 DEF Talking, Pending, history
    <2>3. PICK n : Carries(up, said, Len(got), n)
        BY <1>6 DEF Talking
    <2>4. Carries(up', said', Len(got'), n)
        BY <2>3 DEF history
    <2>5. Carries(down', Echo(got'), Len(echoed'), Len(echoed'))
        BY CarriesNothing
    <2> QED BY <2>1, <2>2, <2>4, <2>5 DEF Talking
<1>7. Shaking \/ Talking
    BY DEF Sound, Fresh
<1>8. IsFiniteSet(offer')
    BY DEF Sound
<1> QED BY <1>1, <1>2, <1>3, <1>5, <1>6, <1>7, <1>8 DEF Sound

LEMMA ServerDownKeeps == ASSUME Sound, ServerDown PROVE Sound'
<1> USE DEF ServerDown
<1>1. ServerReady' /\ srv'.entry = "none"
    BY DEF Sound, ServerReady
<1>2. ClientReady'
    BY DEF Sound, ClientReady
<1>3. Histories'
    BY DEF Sound, Histories, history
<1>5. ASSUME Shaking PROVE Shaking'
    <2>1. Silent'
        BY <1>5 DEF Shaking, Silent, history
    <2>2. up' = <<>> /\ down' = <<>>
        BY <1>5 DEF Shaking
    <2> QED BY <1>5, <2>1, <2>2 DEF Shaking
<1>6. ASSUME Talking PROVE Talking'
    <2>1. /\ ws'.state = "WS" /\ link' \in {"up", "down"} /\ srv'.entry # "TCP"
          /\ link' # "up" /\ (ws'.m_connect = TRUE => link' = "up")
          /\ ws'.msgs \in Seq(Fragments) /\ Len(ws'.msgs) <= 3
        BY <1>1, <1>6 DEF Talking
    <2>2. (user = "send" => Pending)'
        BY <1>6 DEF Talking, Pending, history
    <2>3. Carries(up', said', Len(got'), Len(got'))
        BY CarriesNothing
    <2>4. PICK n : Carries(down, Echo(got), Len(echoed), n)
        BY <1>6 DEF Talking
    <2>5. Carries(down', Echo(got'), Len(echoed'), n)
        BY <2>4 DEF history
    <2> QED BY <2>1, <2>2, <2>3, <2>5 DEF Talking
<1>7. Shaking \/ Talking
    BY DEF Sound, Fresh
<1>8. IsFiniteSet(offer')
    BY DEF Sound
<1> QED BY <1>1, <1>2, <1>3, <1>5, <1>6, <1>7, <1>8 DEF Sound


LEMMA SendWSKeeps ==
    ASSUME Sound, NEW op, NEW fin \in BOOLEAN, SendWS(op, fin),
           causes' \subseteq {"closed"}
    PROVE  Sound'
<1> DEFINE frag == [op |-> op, data |-> <<Len(said) + 1, Len(ws.msgs) + 1>>]
           frags == Append(ws.msgs, frag)
           data == [i \in 1..Len(frags) |-> frags[i].data]
<1>1. /\ user = "idle" /\ ws.m_connect
      /\ user' = IF fin THEN "send" ELSE "idle"
      /\ ws' = [ws EXCEPT !.msgs = frags]
      /\ said' = IF ~fin THEN said ELSE Append(said, data)
      /\ causes' = causes \cup (IF op \in DataOpcodes THEN {} ELSE {"control"})
                          \cup (IF Len(frags) > 3 THEN {"long"} ELSE {})
      /\ UNCHANGED <<link, offer, found, srv, up, down, got, echoed>>
    BY DEF SendWS
<1> HIDE DEF frags
<1>2. op \in DataOpcodes /\ ~(Len(frags) > 3)
    BY <1>1
<1>3. Talking
    BY <1>1 DEF Sound, Fresh, Shaking, Silent
<1>4. said \in Seq(Talk) /\ got \in Seq(Talk) /\ echoed \in Seq(Seq(Talk))
    BY DEF Sound, Histories
<1>5. frags \in Seq(Fragments) /\ Len(frags) = Len(ws.msgs) + 1
      /\ Len(frags) >= 1 /\ Len(frags) <= 3
    <2>1. Len(said) + 1 \in Nat /\ ws.msgs \in Seq(Fragments)
        BY <1>3, <1>4 DEF Talking
    <2>2. Len(ws.msgs) + 1 \in Nat
        BY <2>1
    <2>3. frag \in Fragments
        BY <1>2, <2>1, <2>2 DEF Fragments
    <2> HIDE DEF frag
    <2>4. frags \in Seq(Fragments) /\ Len(frags) = Len(ws.msgs) + 1
        BY <2>1, <2>3 DEF frags
    <2>5. Len(frags) \in Nat /\ Len(ws.msgs) \in Nat
        BY <2>1, <2>4
    <2> QED BY <1>2, <2>4, <2>5
<1>6. data \in Talk
    <2>1. \A i \in 1..Len(frags) : frags[i] \in Fragments
        BY <1>5
    <2>2. \A i \in 1..Len(frags) : frags[i].data \in Nat \X Nat
        BY <2>1 DEF Fragments
    <2>3. Len(frags) \in Nat
        BY <1>5
    <2>4. data \in [1..Len(frags) -> Nat \X Nat]
        BY <2>2
    <2> QED BY <2>3, <2>4 DEF Talk
<1>7. /\ ClientReady' /\ ws'.state = ws.state /\ ws'.m_connect = ws.m_connect
      /\ ws'.msgs = frags
    <2> DEFINE st == ws.state
               mc == ws.m_connect
               cn == ws.conn
               ms == ws.msgs
    <2>1. /\ ws = [state |-> st, m_connect |-> mc, conn |-> cn,
                   msgs |-> ms, buf |-> <<>>]
          /\ mc \in BOOLEAN
        BY DEF Sound, ClientReady
    <2> HIDE DEF st, mc, cn, ms
    <2>2. ws' = [state |-> st, m_connect |-> mc, conn |-> cn,
                 msgs |-> frags, buf |-> <<>>]
        BY <1>1, <2>1
    <2>3. /\ ClientReady' /\ ws'.state = st /\ ws'.m_connect = mc
          /\ ws'.msgs = frags
        BY <2>1, <2>2, ClientRecord
    <2> QED BY <2>3 DEF st, mc
<1> HIDE DEF data
<1>8. /\ said' \in Seq(Talk) /\ Len(said') >= Len(said)
      /\ \A i \in 1..Len(said) : said'[i] = said[i]
      /\ fin => Len(said') = Len(said) + 1 /\ said'[Len(said')] = data
      /\ ~fin => said' = said
    <2>1. CASE fin
        <3>1. said' = Append(said, data)
            BY <1>1, <2>1
        <3> QED BY <1>4, <1>6, <2>1, <3>1
    <2>2. CASE ~fin
        <3>1. said' = said
            BY <1>1, <2>2
        <3> QED BY <1>4, <2>2, <3>1
    <2> QED BY <2>1, <2>2
<1>9. /\ Len(said) \in Nat /\ Len(said') \in Nat /\ Len(got) \in Nat
      /\ Len(echoed) \in Nat
    BY <1>4, <1>8
<1>10. Histories'
    <2>1. Len(got) <= Len(said) /\ \A i \in 1..Len(got) : got[i] = said[i]
        BY DEF Sound, Histories
    <2>2. \A i \in 1..Len(got) : i \in 1..Len(said)
        BY <1>9, <2>1
    <2>3. Len(got) <= Len(said') /\ \A i \in 1..Len(got) : got[i] = said'[i]
        BY <1>8, <1>9, <2>1, <2>2
    <2>4. /\ Len(echoed) <= Len(got)
          /\ \A i \in 1..Len(echoed) : echoed[i] = <<got[i]>>
        BY DEF Sound, Histories
    <2> QED BY <1>1, <1>4, <1>8, <2>3, <2>4 DEF Histories
<1>11. (user = "send" => Pending)'
    <2> SUFFICES ASSUME user' = "send" PROVE Pending'
        OBVIOUS
    <2>1. fin
        BY <1>1
    <2>2. Len(said') >= 1 /\ said'[Len(said')] = data
        BY <1>8, <1>9, <2>1
    <2> QED BY <1>5, <1>7, <2>2 DEF Pending, data
<1>12. Talking'
    <2>1. PICK n : /\ Carries(up, said, Len(got), n)
                   /\ link = "up" => n = Len(said)
        BY <1>1, <1>3 DEF Talking
    <2>2. Carries(up, said', Len(got), n)
        BY <1>8, <1>9, <2>1, CarriesStill
    <2>3. /\ link = "up" /\ user' = "send" => n + 1 = Len(said')
          /\ link = "up" /\ user' # "send" => n = Len(said')
        BY <1>1, <1>8, <2>1
    <2>4. PICK l : /\ Carries(down, Echo(got), Len(echoed), l)
                   /\ link = "up" => l = Len(got)
        BY <1>3 DEF Talking
    <2>5. Carries(up', said', Len(got'), n)
        BY <1>1, <2>2
    <2>6. Carries(down', Echo(got'), Len(echoed'), l)
        BY <1>1, <2>4
    <2>7. /\ ws'.state = "WS" /\ link' \in {"up", "down"} /\ srv'.entry # "TCP"
          /\ (link' = "up" => srv'.entry = "WEBSOCKET")
          /\ (ws'.m_connect = TRUE => link' = "up")
          /\ ws'.msgs \in Seq(Fragments) /\ Len(ws'.msgs) <= 3
        BY <1>1, <1>3, <1>5, <1>7 DEF Talking
    <2>8. /\ link' = "up" /\ user' = "send" => n + 1 = Len(said')
          /\ link' = "up" /\ user' # "send" => n = Len(said')
          /\ link' = "up" => l = Len(got')
        BY <1>1, <2>3, <2>4
    <2> QED BY <1>11, <2>5, <2>6, <2>7, <2>8 DEF Talking
<1>13. ServerReady' /\ IsFiniteSet(offer')
    BY <1>1 DEF Sound, ServerReady
<1> QED BY <1>7, <1>10, <1>12, <1>13 DEF Sound

LEMMA SendKeeps == ASSUME Sound, Send PROVE Sound'
<1>1. /\ user = "send" /\ user' # "send"
      /\ up' = IF link = "up" THEN up \o Encode(ws.msgs) ELSE up
      /\ ws' = [ws EXCEPT !.msgs = <<>>]
      /\ UNCHANGED <<link, offer, found, srv, down, said, got, echoed>>
    BY DEF Send, history
<1>2. Talking
    BY <1>1 DEF Sound, Fresh, Shaking, Silent
<1>3. /\ ClientReady' /\ ws'.state = ws.state /\ ws'.m_connect = ws.m_connect
      /\ ws'.msgs = <<>>
    <2> DEFINE st == ws.state
               mc == ws.m_connect
               cn == ws.conn
               ms == ws.msgs
    <2>1. /\ ws = [state |-> st, m_connect |-> mc, conn |-> cn,
                   msgs |-> ms, buf |-> <<>>]
          /\ mc \in BOOLEAN
        BY DEF Sound, ClientReady
    <2> HIDE DEF st, mc, cn, ms
    <2>2. ws' = [state |-> st, m_connect |-> mc, conn |-> cn,
                 msgs |-> <<>>, buf |-> <<>>]
        BY <1>1, <2>1
    <2>3. /\ ClientReady' /\ ws'.state = st /\ ws'.m_connect = mc
          /\ ws'.msgs = <<>>
        BY <2>1, <2>2, ClientRecord
    <2> QED BY <2>3 DEF st, mc
<1>4. Histories'
    BY <1>1 DEF Sound, Histories
<1>5. said \in Seq(Talk) /\ Len(said) \in Nat /\ Len(got) \in Nat
    BY DEF Sound, Histories
<1>6. \E n : /\ Carries(up', said, Len(got), n)
             /\ link = "up" => n = Len(said)
    <2>1. PICK n : /\ Carries(up, said, Len(got), n)
                   /\ link = "up" => n + 1 = Len(said)
        BY <1>1, <1>2 DEF Talking
    <2>2. CASE link # "up"
        BY <1>1, <2>1, <2>2
    <2>3. CASE link = "up"
        <3> DEFINE g == Len(got)
                   frags == ws.msgs
        <3>1. n + 1 = Len(said) /\ g \in 0..Len(said)
            BY <1>5, <2>1, <2>3 DEF Sound, Histories
        <3>2. Carries(up, said, g, n)
            BY <2>1
        <3>3. frags \in Seq(Fragments) /\ Len(frags) <= 3 /\ Pending
            BY <1>1, <1>2 DEF Talking
        <3>4. Len(frags) \in 1..3
            <4>1. Len(frags) \in Nat /\ Len(frags) >= 1
                BY <3>3 DEF Pending
            <4>2. \A x \in Nat : x >= 1 /\ x <= 3 => x \in 1..3
                OBVIOUS
            <4>3. Len(frags) <= 3
                BY <3>3
            <4> HIDE DEF frags
            <4> QED BY <4>1, <4>2, <4>3
        <3>5. said[n + 1] = [i \in 1..Len(frags) |-> frags[i].data]
            BY <3>1, <3>3 DEF Pending
        <3> HIDE DEF g, frags
        <3>6. n \in Nat
            <4>1. n \in g..Len(said)
                BY <1>5, <3>1, <3>2, Decoded DEF Talk
            <4> QED BY <1>5, <3>1, <4>1
        <3>7. Carries(Encode(frags), said, n, n + 1)
            <4>1. n + 1 <= Len(said)
                BY <1>5, <3>1, <3>6
            <4> QED BY <1>5, <3>3, <3>4, <3>5, <3>6, <4>1, Encoded
                    DEF Fragments
        <3>8. g \in Nat
            BY <1>5 DEF g
        <3>9. Carries(up \o Encode(frags), said, g, n + 1)
            <4> DEFINE X == Encode(frags)
                       l == n + 1
            <4>1. Carries(X, said, n, l)
                BY <3>7
            <4> HIDE DEF X, l
            <4>2. Carries(up \o X, said, g, l)
                BY <3>2, <3>6, <3>8, <4>1, CarriesMore
            <4> QED BY <4>2 DEF X, l
        <3>10. up' = up \o Encode(frags)
            BY <1>1, <2>3 DEF frags
        <3> QED BY <3>1, <3>9, <3>10 DEF g
    <2> QED BY <2>2, <2>3
<1>7. Talking'
    <2>1. PICK n : /\ Carries(up', said, Len(got), n)
                   /\ link = "up" => n = Len(said)
        BY <1>6
    <2>2. PICK l : /\ Carries(down, Echo(got), Len(echoed), l)
                   /\ link = "up" => l = Len(got)
        BY <1>2 DEF Talking
    <2>3. Carries(up', said', Len(got'), n)
        BY <1>1, <2>1
    <2>4. Carries(down', Echo(got'), Len(echoed'), l)
        BY <1>1, <2>2
    <2>5. <<>> \in Seq(Fragments) /\ Len(<<>>) <= 3
        OBVIOUS
    <2>6. /\ ws'.state = "WS" /\ link' \in {"up", "down"} /\ srv'.entry # "TCP"
          /\ (link' = "up" => srv'.entry = "WEBSOCKET")
          /\ (ws'.m_connect = TRUE => link' = "up")
          /\ ws'.msgs \in Seq(Fragments) /\ Len(ws'.msgs) <= 3
        BY <1>1, <1>2, <1>3, <2>5 DEF Talking
    <2>7. /\ link' = "up" => n = Len(said')
          /\ link' = "up" => l = Len(got')
        BY <1>1, <2>1, <2>2
    <2> QED BY <1>1, <2>3, <2>4, <2>6, <2>7 DEF Talking
<1>8. ServerReady' /\ IsFiniteSet(offer')
    BY <1>1 DEF Sound, ServerReady
<1> QED BY <1>3, <1>4, <1>7, <1>8 DEF Sound


\* More of S behind what is already a prefix of it.
LEMMA PrefixGrows ==
    ASSUME NEW W, NEW S \in Seq(W), NEW q \in Seq(W), Len(q) <= Len(S),
           \A j \in 1..Len(q) : q[j] = S[j], NEW i \in Len(q)..Len(S)
    PROVE  LET r == q \o SubSeq(S, Len(q) + 1, i)
           IN  r \in Seq(W) /\ Len(r) = i /\ \A j \in 1..i : r[j] = S[j]
<1> DEFINE g == Len(q)
           t == SubSeq(S, g + 1, i)
           r == q \o t
<1>1. g \in Nat /\ i \in Nat /\ g <= i /\ i <= Len(S) /\ Len(S) \in Nat
    OBVIOUS
<1>2. t \in Seq(W) /\ Len(t) = i - g /\ \A j \in 1..i - g : t[j] = S[g + j]
    OBVIOUS
<1> HIDE DEF t
<1>3. r = q \o t
    OBVIOUS
<1> HIDE DEF r
<1>4. r \in Seq(W) /\ Len(r) = g + Len(t)
      /\ \A j \in 1..g + Len(t) : r[j] = IF j <= g THEN q[j] ELSE t[j - g]
    <2>1. t \in Seq(W)
        BY <1>2
    <2>2. r \in Seq(W) /\ Len(r) = g + Len(t)
        BY <1>3, <2>1
    <2>3. \A j \in 1..g + Len(t) : r[j] = IF j <= g THEN q[j] ELSE t[j - g]
        BY <1>3, <2>1
    <2> QED BY <2>2, <2>3
<1>5. g + Len(t) = i
    BY <1>1, <1>2
<1>6. ASSUME NEW j \in 1..i PROVE r[j] = S[j]
    <2>1. CASE j <= g
        BY <1>1, <1>4, <1>5, <2>1
    <2>2. CASE ~(j <= g)
        <3>1. j - g \in 1..i - g /\ g + (j - g) = j
            BY <1>1, <2>2
        <3> QED BY <1>2, <1>4, <1>5, <2>2, <3>1
    <2> QED BY <2>1, <2>2
<1> QED BY <1>4, <1>5, <1>6 DEF r, t

\* A read that takes everything.
LEMMA AllRead ==
    ASSUME NEW W, NEW S \in Seq(W), NEW k, k = Len(S)
    PROVE  /\ <<>> \o SubSeq(S, 1, k) = S
           /\ SubSeq(S, k + 1, Len(S)) = <<>>
<1>1. SubSeq(S, 1, k) = S
    OBVIOUS
<1>2. <<>> \o S = S
    OBVIOUS
<1>3. SubSeq(S, k + 1, k) = <<>>
    OBVIOUS
<1> QED BY <1>1, <1>2, <1>3

LEMMA EchoType ==
    ASSUME NEW W, NEW q \in Seq(W)
    PROVE  /\ Echo(q) \in Seq(Seq(W)) /\ Len(Echo(q)) = Len(q)
           /\ \A i \in 1..Len(q) : Echo(q)[i] = <<q[i]>>
<1> DEFINE n == Len(q)
           V == Seq(W)
<1>1. n \in Nat /\ \A i \in 1..n : <<q[i]>> \in V
    OBVIOUS
<1> HIDE DEF V, n
<1>2. [i \in 1..n |-> <<q[i]>>] \in [1..n -> V]
    BY <1>1
<1>3. /\ [i \in 1..n |-> <<q[i]>>] \in Seq(V)
      /\ Len([i \in 1..n |-> <<q[i]>>]) = n
    BY <1>1, <1>2
<1>4. \A i \in 1..n : [j \in 1..n |-> <<q[j]>>][i] = <<q[i]>>
    OBVIOUS
<1> QED BY <1>3, <1>4 DEF Echo, V, n

\* A read that is not noted ends where a message or a request does.
LEMMA NotSplit ==
    ASSUME NEW B, NEW k, causes \cup Cut(B, k) \subseteq {"closed"}
    PROVE  Cut(B, k) = {}
BY DEF Cut

\* The read of the client that makes it switch.
LEMMA ClientSwitches ==
    ASSUME Sound, Shaking, NEW k \in 1..Len(down), ClientReads(k),
           causes' \subseteq {"closed"}
    PROVE  Sound'
<1> DEFINE x == Unit("response", TRUE, "101")
           y == Unit("responseEnd", FALSE, "101")
<1>1. Cut(down, k) = {}
    BY NotSplit DEF ClientReads
<1>2. down = Response("101") /\ up = <<>> /\ srv.entry = "WEBSOCKET"
      /\ link = "up"
    <2>1. down # <<>>
        <3>1. Len(<<>>) = 0
            OBVIOUS
        <3> QED BY <3>1
    <2> QED BY <2>1 DEF Shaking
<1>3. down = <<x, y>> /\ x.v = "101" /\ y.first = FALSE
    BY <1>2 DEF Response, Unit
<1> HIDE DEF x, y
<1>4. Len(down) = 2 /\ down[2] = y /\ down \in Seq({x, y}) /\ Head(down) = x
    BY <1>3
<1>5. k = 2
    <2>1. k = 1 \/ k = 2
        BY <1>4
    <2>2. k # 1
        BY <1>1, <1>3, <1>4 DEF Cut
    <2> QED BY <2>1, <2>2
<1>6. /\ ws.buf \o SubSeq(down, 1, k) = down
      /\ SubSeq(down, k + 1, Len(down)) = <<>>
    <2>1. ws.buf = <<>>
        BY DEF Sound, ClientReady
    <2>2. k = Len(down)
        BY <1>4, <1>5
    <2>3. /\ <<>> \o SubSeq(down, 1, k) = down
          /\ SubSeq(down, k + 1, Len(down)) = <<>>
        BY <1>4, <2>2, AllRead
    <2> QED BY <2>1, <2>3
<1>7. upgrades(down)
    BY <1>3, <1>4 DEF upgrades
<1>8. /\ ws' = [ws EXCEPT !.buf = <<>>, !.state = "WS", !.m_connect = TRUE]
      /\ echoed' = echoed /\ down' = <<>>
      /\ UNCHANGED <<link, offer, found, srv, up, user, said, got>>
    <2>1. ws.state = "HTTP"
        BY DEF Shaking
    <2>2. ClientHttp(down) /\ down' = <<>>
          /\ UNCHANGED <<link, offer, found, srv, up, user, said, got>>
        BY <1>6, <2>1 DEF ClientReads
    <2>3. (ws.m_connect \/ upgrades(down)) = TRUE
        BY <1>7, Zenon
    <2> QED BY <1>7, <2>2, <2>3 DEF ClientHttp
<1>9. ClientReady' /\ ws'.state = "WS" /\ ws'.m_connect = TRUE
      /\ ws'.msgs = ws.msgs
    <2> DEFINE st == ws.state
               mc == ws.m_connect
               cn == ws.conn
               ms == ws.msgs
    <2>1. ws = [state |-> st, m_connect |-> mc, conn |-> cn,
                msgs |-> ms, buf |-> <<>>]
        BY DEF Sound, ClientReady
    <2> HIDE DEF st, mc, cn, ms
    <2>2. ws' = [state |-> "WS", m_connect |-> TRUE, conn |-> cn,
                 msgs |-> ms, buf |-> <<>>]
        BY <1>8, <2>1
    <2>3. /\ ClientReady' /\ ws'.state = "WS" /\ ws'.m_connect = TRUE
          /\ ws'.msgs = ms
        BY <2>2, ClientRecord
    <2> QED BY <2>3 DEF ms
<1>10. Histories' /\ ServerReady' /\ IsFiniteSet(offer')
    BY <1>8 DEF Sound, Histories, ServerReady
<1>11. Talking'
    <2>1. user = "idle" /\ said = <<>> /\ ws.msgs = <<>>
        BY DEF Shaking, Silent
    <2>2. Len(said) = 0 /\ Len(got) = 0 /\ Len(echoed) = 0
        <3>1. Len(said) = 0
            BY <2>1
        <3>2. /\ Len(got) \in Nat /\ Len(got) <= Len(said)
              /\ Len(echoed) \in Nat /\ Len(echoed) <= Len(got)
            BY DEF Sound, Histories
        <3> QED BY <3>1, <3>2
    <2>3. Carries(<<>>, said', 0, 0) /\ Carries(<<>>, Echo(got'), 0, 0)
        BY CarriesNothing
    <2>4. Carries(up', said', Len(got'), 0)
          /\ Carries(down', Echo(got'), Len(echoed'), 0)
        BY <1>2, <1>8, <2>2, <2>3
    <2>5. <<>> \in Seq(Fragments) /\ Len(<<>>) <= 3
        OBVIOUS
    <2>6. /\ link' = "up" /\ srv'.entry = "WEBSOCKET" /\ user' = "idle"
          /\ ws'.msgs \in Seq(Fragments) /\ Len(ws'.msgs) <= 3
          /\ Len(said') = 0 /\ Len(got') = 0
        BY <1>2, <1>8, <1>9, <2>1, <2>2, <2>5
    <2> QED BY <1>9, <2>4, <2>6 DEF Talking
<1> QED BY <1>9, <1>10, <1>11 DEF Sound


\* What a side makes of a read of whole messages of S, of which it has q.
Heard(c, r, S, q, B, k, n) ==
    /\ c.buf = <<>> /\ c.end = "message" /\ Len(r) \in Len(q)..Len(S)
    /\ c.msgs = SubSeq(S, Len(q) + 1, Len(r))
    /\ \A j \in 1..Len(r) : r[j] = S[j]
    /\ Carries(SubSeq(B, k + 1, Len(B)), S, Len(r), n)

LEMMA Understood ==
    ASSUME NEW V, NEW S \in Seq(Seq(V)), NEW q \in Seq(Seq(V)),
           Len(q) <= Len(S), \A j \in 1..Len(q) : q[j] = S[j],
           NEW B, NEW n, Carries(B, S, Len(q), n),
           NEW k \in 1..Len(B), Cut(B, k) = {},
           NEW c, c = Messages(<<>> \o SubSeq(B, 1, k))
    PROVE  q \o c.msgs \in Seq(Seq(V)) /\ Heard(c, q \o c.msgs, S, q, B, k, n)
<1> DEFINE g == Len(q)
           P == SubSeq(B, 1, k)
           W == Seq(V)
           r == q \o c.msgs
<1>1. g \in 0..Len(S)
    OBVIOUS
<1>2. PICK i : /\ Carries(P, S, g, i)
               /\ Carries(SubSeq(B, k + 1, Len(B)), S, i, n)
    BY WholeRead
<1>3. <<>> \o P = P
    <2>1. \E U : P \in Seq(U)
        BY <1>2 DEF Carries
    <2> HIDE DEF P
    <2> QED BY <2>1
<1>4. i \in g..Len(S) /\ c = After(S, g + 1, i)
    <2> HIDE DEF g, P
    <2>1. i \in g..Len(S) /\ Messages(P) = After(S, g + 1, i)
        BY <1>1, <1>2, Decoded
    <2> QED BY <1>3, <2>1 DEF P
<1>5. c.buf = <<>> /\ c.end = "message" /\ c.msgs = SubSeq(S, g + 1, i)
    BY <1>4 DEF After
<1>6. r = q \o SubSeq(S, Len(q) + 1, i)
    BY <1>5
<1>7. S \in Seq(W) /\ q \in Seq(W)
    OBVIOUS
<1> HIDE DEF W
<1>8. r \in Seq(W) /\ Len(r) = i /\ \A j \in 1..i : r[j] = S[j]
    <2> HIDE DEF r
    <2>1. i \in Len(q)..Len(S)
        BY <1>4
    <2> DEFINE z == q \o SubSeq(S, Len(q) + 1, i)
    <2>2. z \in Seq(W) /\ Len(z) = i /\ \A j \in 1..i : z[j] = S[j]
        BY <1>7, <2>1, PrefixGrows
    <2> QED BY <1>6, <2>2
<1> QED BY <1>2, <1>4, <1>5, <1>8 DEF W, Heard

\* A read of the client in the conversation.
LEMMA ClientListens ==
    ASSUME Sound, Talking, NEW k \in 1..Len(down), ClientReads(k),
           causes' \subseteq {"closed"}
    PROVE  Sound'
<1> DEFINE S == Echo(got)
           c == Messages(<<>> \o SubSeq(down, 1, k))
           r == echoed \o c.msgs
<1>1. Cut(down, k) = {}
    BY NotSplit DEF ClientReads
<1>2. PICK n : /\ Carries(down, S, Len(echoed), n)
               /\ link = "up" => n = Len(got)
    BY DEF Talking
<1>3. /\ got \in Seq(Talk) /\ echoed \in Seq(Seq(Talk))
      /\ Len(echoed) <= Len(got) /\ Len(got) \in Nat /\ Len(echoed) \in Nat
      /\ \A i \in 1..Len(echoed) : echoed[i] = <<got[i]>>
    <2>1. got \in Seq(Talk) /\ echoed \in Seq(Seq(Talk))
        BY DEF Sound, Histories
    <2>2. Len(got) \in Nat
        BY <2>1
    <2>3. Len(echoed) \in Nat
        BY <2>1
    <2>4. /\ Len(echoed) <= Len(got)
          /\ \A i \in 1..Len(echoed) : echoed[i] = <<got[i]>>
        BY DEF Sound, Histories
    <2> QED BY <2>1, <2>2, <2>3, <2>4
<1>4. S \in Seq(Seq(Talk)) /\ Len(S) = Len(got)
      /\ \A i \in 1..Len(got) : S[i] = <<got[i]>>
    BY <1>3, EchoType
<1>5. \A i \in 1..Len(echoed) : i \in 1..Len(got) /\ echoed[i] = S[i]
    <2>1. \A a, b \in Nat : a <= b => \A i \in 1..a : i \in 1..b
        OBVIOUS
    <2>2. \A i \in 1..Len(echoed) : i \in 1..Len(got)
        BY <1>3, <2>1
    <2> QED BY <1>3, <1>4, <2>2
<1> HIDE DEF S, c, r
<1>6. /\ c.buf = <<>> /\ c.end = "message"
      /\ r \in Seq(Seq(Talk)) /\ Len(r) \in Len(echoed)..Len(S)
      /\ \A j \in 1..Len(r) : r[j] = S[j]
      /\ Carries(SubSeq(down, k + 1, Len(down)), S, Len(r), n)
    <2>1. c = Messages(<<>> \o SubSeq(down, 1, k)) /\ Len(echoed) <= Len(S)
        BY <1>3, <1>4 DEF c
    <2>2. /\ echoed \o c.msgs \in Seq(Seq(Talk))
          /\ Heard(c, echoed \o c.msgs, S, echoed, down, k, n)
        BY <1>1, <1>2, <1>3, <1>4, <1>5, <2>1, Understood
    <2>3. r \in Seq(Seq(Talk)) /\ Heard(c, r, S, echoed, down, k, n)
        BY <2>2 DEF r
    <2> QED BY <2>3 DEF Heard
<1>7. /\ ws' = [ws EXCEPT !.buf = <<>>, !.state = "WS"]
      /\ echoed' = r /\ down' = SubSeq(down, k + 1, Len(down))
      /\ UNCHANGED <<link, offer, found, srv, up, user, said, got>>
    <2>1. ws.state = "WS" /\ ws.buf = <<>>
        BY DEF Talking, Sound, ClientReady
    <2>2. ClientFrames(<<>> \o SubSeq(down, 1, k))
        BY <2>1 DEF ClientReads
    <2>3. /\ ws' = [ws EXCEPT !.buf = c.buf,
                              !.state = IF c.end = "garbage" THEN "garbled"
                                        ELSE @]
          /\ echoed' = echoed \o c.msgs
        BY <2>2 DEF ClientFrames, c
    <2> QED BY <1>6, <2>1, <2>3 DEF ClientReads, r
<1>8. ClientReady' /\ ws'.state = "WS" /\ ws'.m_connect = ws.m_connect
      /\ ws'.msgs = ws.msgs
    <2> DEFINE st == ws.state
               mc == ws.m_connect
               cn == ws.conn
               ms == ws.msgs
    <2>1. /\ ws = [state |-> st, m_connect |-> mc, conn |-> cn,
                   msgs |-> ms, buf |-> <<>>]
          /\ mc \in BOOLEAN
        BY DEF Sound, ClientReady
    <2> HIDE DEF st, mc, cn, ms
    <2>2. ws' = [state |-> "WS", m_connect |-> mc, conn |-> cn,
                 msgs |-> ms, buf |-> <<>>]
        BY <1>7, <2>1
    <2>3. /\ ClientReady' /\ ws'.state = "WS" /\ ws'.m_connect = mc
          /\ ws'.msgs = ms
        BY <2>1, <2>2, ClientRecord
    <2> QED BY <2>3 DEF ms, mc
<1>9. Len(r) \in Nat /\ Len(r) <= Len(got)
    BY <1>3, <1>4, <1>6
<1>10. \A i \in 1..Len(r) : r[i] = <<got[i]>>
    <2>1. \A i \in 1..Len(r) : i \in 1..Len(got)
        BY <1>3, <1>9
    <2> QED BY <1>4, <1>6, <2>1
<1>11. Histories'
    BY <1>6, <1>7, <1>9, <1>10 DEF Sound, Histories
<1>12. ServerReady' /\ IsFiniteSet(offer')
    BY <1>7 DEF Sound, ServerReady
<1>13. Talking'
    <2>1. PICK l : /\ Carries(up, said, Len(got), l)
                   /\ link = "up" /\ user = "send" => l + 1 = Len(said)
                   /\ link = "up" /\ user # "send" => l = Len(said)
        BY DEF Talking
    <2>2. /\ Carries(up', said', Len(got'), l)
          /\ link' = "up" /\ user' = "send" => l + 1 = Len(said')
          /\ link' = "up" /\ user' # "send" => l = Len(said')
        BY <1>7, <2>1
    <2>3. Carries(down', Echo(got'), Len(echoed'), n)
          /\ (link' = "up" => n = Len(got'))
        BY <1>2, <1>6, <1>7 DEF S
    <2>4. (user = "send" => Pending)'
        BY <1>7, <1>8 DEF Talking, Pending
    <2>5. /\ ws'.state = "WS" /\ link' \in {"up", "down"} /\ srv'.entry # "TCP"
          /\ (link' = "up" => srv'.entry = "WEBSOCKET")
          /\ (ws'.m_connect = TRUE => link' = "up")
          /\ ws'.msgs \in Seq(Fragments) /\ Len(ws'.msgs) <= 3
        BY <1>7, <1>8 DEF Talking
    <2> QED BY <2>2, <2>3, <2>4, <2>5 DEF Talking
<1> QED BY <1>8, <1>11, <1>12, <1>13 DEF Sound

LEMMA ClientReadsKeeps ==
    ASSUME Sound, NEW k \in 1..Len(down), ClientReads(k),
           causes' \subseteq {"closed"}
    PROVE  Sound'
<1>1. ~Fresh
    BY DEF Fresh, ClientReads
<1>2. Shaking \/ Talking
    BY <1>1 DEF Sound
<1> QED BY <1>2, ClientSwitches, ClientListens


LEMMA ServerRecord ==
    ASSUME NEW e \in {"none", "TCP", "WEBSOCKET"}, NEW x,
           srv' = [entry |-> e, path |-> x, parser |-> NewParser,
                   state |-> "Connected", buf |-> <<>>]
    PROVE  ServerReady' /\ srv'.entry = e
<1>1. srv'.entry = e /\ srv'.path = x
    OBVIOUS
<1> QED BY <1>1 DEF ServerReady

\* The request is read in one piece, and the parser finishes it.
LEMMA RequestRead ==
    ASSUME IsFiniteSet(offer), up = Request, NEW k \in 1..Len(up),
           Cut(up, k) = {}
    PROVE  /\ <<>> \o SubSeq(up, 1, k) = up
           /\ SubSeq(up, k + 1, Len(up)) = <<>>
           /\ \E q : /\ parserHttpRequest(NewParser,
                            [i \in 1..Len(up) |-> up[i].v]) =
                                Done(q, Len(up))
                     /\ isFinished(q)
<1>1. PICK U : up \in Seq(U)
    BY RequestShape
<1>2. /\ Len(up) \in Nat /\ Len(up) >= 2
      /\ up[1].v.kind = "request" /\ up[Len(up)].v.kind # "header"
      /\ \A i \in 2..Len(up) - 1 : up[i].v.kind = "header"
      /\ \A i \in 2..Len(up) : up[i].first = FALSE
    BY RequestShape
<1>3. k = Len(up)
    <2> SUFFICES ASSUME k # Len(up) PROVE FALSE
        OBVIOUS
    <2>1. k < Len(up) /\ k + 1 \in 2..Len(up)
        BY <1>2
    <2>2. ~up[k + 1].first
        BY <1>2, <2>1
    <2> QED BY <2>1, <2>2 DEF Cut
<1>4. /\ <<>> \o SubSeq(up, 1, k) = up
      /\ SubSeq(up, k + 1, Len(up)) = <<>>
    BY <1>1, <1>3, AllRead
<1> DEFINE n == Len(up)
           ls == [i \in 1..n |-> up[i].v]
<1>5. n \in Nat /\ Len(ls) = n /\ \A i \in 1..n : ls[i] = up[i].v
    BY <1>2
<1>6. /\ 1 \in 1..n /\ n \in 1..n /\ \A i \in 2..n - 1 : i \in 1..n
    BY <1>2
<1>7. /\ Len(ls) \in Nat /\ Len(ls) >= 2
      /\ ls[1].kind = "request" /\ ls[Len(ls)].kind # "header"
      /\ \A i \in 2..Len(ls) - 1 : ls[i].kind = "header"
    <2>1. /\ n >= 2 /\ up[1].v.kind = "request" /\ up[n].v.kind # "header"
          /\ \A i \in 2..n - 1 : up[i].v.kind = "header"
        BY <1>2
    <2> HIDE DEF ls, n
    <2>2. ls[1].kind = "request" /\ ls[n].kind # "header"
        BY <1>5, <1>6, <2>1
    <2>3. \A i \in 2..n - 1 : ls[i].kind = "header"
        BY <1>5, <1>6, <2>1
    <2> QED BY <1>5, <2>1, <2>2, <2>3
<1>8. \E q : /\ parserHttpRequest(NewParser, ls) = Done(q, Len(ls))
             /\ isFinished(q)
    <2> HIDE DEF ls, n
    <2> DEFINE v == parserHttpRequest(NewParser, ls)
    <2>1. v = parserHttpRequest(NewParser, ls)
        OBVIOUS
    <2> HIDE DEF v
    <2>2. \E q : /\ v = Done(q, Len(ls)) /\ isFinished(q)
                 /\ q.request.path = ls[1].path
        BY <1>7, <2>1, RequestRan
    <2> QED BY <2>2 DEF v
<1> QED BY <1>4, <1>5, <1>8

LEMMA ServerShakes ==
    ASSUME Sound, Shaking, NEW k \in 1..Len(up), ServerReads(k),
           causes' \subseteq {"closed"}
    PROVE  Sound'
<1> DEFINE ls == [i \in 1..Len(up) |-> up[i].v]
           n == Len(up)
<1>1. Cut(up, k) = {}
    BY DEF ServerReads, Cut
<1>2. up = Request /\ srv.entry # "WEBSOCKET" /\ down = <<>>
    <2>1. up # <<>>
        <3>1. Len(<<>>) = 0
            OBVIOUS
        <3> QED BY <3>1
    <2> QED BY <2>1 DEF Shaking
<1>3. IsFiniteSet(offer)
    BY DEF Sound
<1>4. /\ <<>> \o SubSeq(up, 1, k) = up /\ SubSeq(up, k + 1, Len(up)) = <<>>
      /\ \E q : parserHttpRequest(NewParser, ls) = Done(q, n) /\ isFinished(q)
    BY <1>1, <1>2, <1>3, RequestRead
<1>5. PICK q : parserHttpRequest(NewParser, ls) = Done(q, n) /\ isFinished(q)
    BY <1>4
<1>6. \E U : up \in Seq(U)
    BY <1>2, <1>3, RequestShape
<1> DEFINE e == srv.entry
           x == srv.path
           d == IF accepts(q) THEN "WEBSOCKET" ELSE e
           y == IF accepts(q) THEN q.request.path ELSE x
<1>7. srv = [entry |-> e, path |-> x, parser |-> NewParser,
             state |-> "Connected", buf |-> <<>>]
    BY DEF Sound, ServerReady
<1>8. ServerHttp(up) /\ up' = <<>>
      /\ UNCHANGED <<link, offer, found, ws, user, said, echoed>>
    <2>1. srv.buf = <<>>
        BY <1>7
    <2> QED BY <1>2, <1>4, <2>1 DEF ServerReads
<1>9. /\ srv' = [srv EXCEPT !.buf = <<>>, !.parser = NewParser,
                   !.state = "Connected", !.entry = d, !.path = y]
      /\ Sends(IF accepts(q) THEN Response("101") ELSE <<>>)
      /\ got' = got
    <2> DEFINE r == parserHttpRequest(NewParser, ls)
    <2>1. r.p = q /\ r.used = n /\ r.ok = TRUE
        BY <1>5 DEF Done
    <2>2. SubSeq(up, n + 1, n) = <<>>
        BY <1>6, AllRead
    <2>3. reset(q) = NewParser /\ isFinished(q)
        BY <1>5 DEF reset
    <2>4. srv.parser = NewParser /\ srv.state = "Connected"
        BY <1>7
    <2>5. /\ srv' = [srv EXCEPT
                       !.buf = SubSeq(up, r.used + 1, Len(up)),
                       !.parser = IF isFinished(r.p) THEN reset(r.p) ELSE r.p,
                       !.state = IF r.ok THEN @ ELSE "Disconnecting",
                       !.entry = IF accepts(r.p) THEN "WEBSOCKET" ELSE @,
                       !.path = IF accepts(r.p) THEN r.p.request.path ELSE @]
          /\ Sends(IF ~r.ok THEN Response("400")
                   ELSE IF accepts(r.p) THEN Response("101") ELSE <<>>)
          /\ got' = got
        BY <1>8, <2>4 DEF ServerHttp
    <2> HIDE DEF r
    <2> QED BY <2>1, <2>2, <2>3, <2>4, <2>5
<1>10. d \in {"none", "TCP", "WEBSOCKET"}
    BY DEF Sound, ServerReady
<1>11. accepts(q) => d = "WEBSOCKET"
    OBVIOUS
<1> HIDE DEF d, e, x, y
<1>12. srv' = [entry |-> d, path |-> y, parser |-> NewParser,
              state |-> "Connected", buf |-> <<>>]
    BY <1>7, <1>9
<1>13. ServerReady' /\ srv'.entry = d
    BY <1>10, <1>12, ServerRecord
<1>14. \/ down' = <<>>
       \/ down' = Response("101") /\ accepts(q) /\ link = "up"
    <2>1. <<>> \o <<>> = <<>> /\ <<>> \o Response("101") = Response("101")
        BY DEF Response
    <2> QED BY <1>2, <1>9, <2>1 DEF Sends
<1>15. Shaking'
    <2>1. Silent'
        BY <1>8 DEF Shaking, Silent
    <2>2. \/ up' = <<>> /\ down' = <<>>
          \/ /\ up' = <<>> /\ down' = Response("101")
             /\ srv'.entry = "WEBSOCKET" /\ link' = "up"
        BY <1>8, <1>11, <1>13, <1>14
    <2>3. Response("101")' = Response("101")
        BY DEF Response, Unit
    <2> QED BY <1>8, <2>1, <2>2, <2>3 DEF Shaking
<1>16. Histories' /\ ClientReady' /\ IsFiniteSet(offer')
    BY <1>8, <1>9 DEF Sound, Histories, ClientReady
<1> QED BY <1>13, <1>15, <1>16 DEF Sound


\* What the server sends back when it has r instead of got.
LEMMA RepliesCarried ==
    ASSUME NEW W, NEW G \in Seq(W), NEW g \in Nat, g <= Len(G),
           NEW M, Len(M) = Len(G) - g,
           \A i \in 1..Len(G) - g : M[i] = G[g + i],
           found \/ Len(G) = g
    PROVE  Carries(Units([i \in 1..Len(M) |-> Reply(M[i])]),
                   Echo(G), g, Len(G))
<1>1. Len(G) \in Nat /\ Len(G) \in g..Len(G)
    OBVIOUS
<1>2. CASE found
    <2> DEFINE E == Echo(G)
               l == Len(G)
    <2>1. E = [i \in 1..Len(G) |-> <<G[i]>>]
        BY DEF Echo
    <2>2. /\ l \in g..Len(G) /\ Len(M) = l - g
          /\ \A i \in 1..l - g : M[i] = G[g + i]
        BY <1>1
    <2> HIDE DEF E, l
    <2>3. Carries(Units([i \in 1..Len(M) |-> Reply(M[i])]), E, g, l)
        BY <1>2, <2>1, <2>2, Replied
    <2> QED BY <2>3 DEF E, l
<1>3. CASE Len(G) = g
    <2> DEFINE F == [i \in 1..Len(M) |-> Reply(M[i])]
    <2>1. Len(M) = 0
        BY <1>3
    <2>2. Len(F) = 0
        BY <2>1
    <2> HIDE DEF F
    <2> DEFINE z == <<>>
               L == 0
    <2>3. /\ L \in Nat /\ L = Len(F)
          /\ \A i \in 1..L : \A c \in 1..3 :
                 Fits(F[i][c], Echo(G), z[i], z[i], c)
          /\ \A i \in 1..L - 1 :
                 Follows(Echo(G), z[i], z[i], 3, z[i + 1], z[i + 1], 1)
          /\ L = 0
        BY <2>2
    <2> HIDE DEF z, L
    <2>4. Carries(Units(F), Echo(G), g, g)
        BY <2>3, UnitsLaid
    <2> QED BY <1>3, <2>4 DEF F
<1> QED BY <1>2, <1>3

LEMMA ServerListens ==
    ASSUME Sound, Talking, NEW k \in 1..Len(up), ServerReads(k),
           causes' \subseteq {"closed"}
    PROVE  Sound'
<1> DEFINE c == Messages(<<>> \o SubSeq(up, 1, k))
           r == got \o c.msgs
           X == Units([i \in 1..Len(c.msgs) |-> Reply(c.msgs[i])])
           e == srv.entry
           x == srv.path
<1>1. Cut(up, k) = {}
    BY DEF ServerReads, Cut
<1>2. PICK n : /\ Carries(up, said, Len(got), n)
               /\ link = "up" /\ user = "send" => n + 1 = Len(said)
               /\ link = "up" /\ user # "send" => n = Len(said)
    BY DEF Talking
<1>3. /\ said \in Seq(Talk) /\ got \in Seq(Talk) /\ echoed \in Seq(Seq(Talk))
      /\ Len(got) <= Len(said) /\ \A i \in 1..Len(got) : got[i] = said[i]
      /\ Len(echoed) <= Len(got)
      /\ \A i \in 1..Len(echoed) : echoed[i] = <<got[i]>>
    BY DEF Sound, Histories
<1>4. Len(said) \in Nat /\ Len(got) \in Nat /\ Len(echoed) \in Nat
    <2>1. Len(echoed) \in Nat
        BY <1>3
    <2>2. Len(said) \in Nat /\ Len(got) \in Nat
        BY <1>3
    <2> QED BY <2>1, <2>2
<1>5. srv = [entry |-> e, path |-> x, parser |-> NewParser,
             state |-> "Connected", buf |-> <<>>]
    BY DEF Sound, ServerReady
<1>6. e = "WEBSOCKET" /\ srv.buf = <<>> /\ srv.state = "Connected"
    <2>1. srv.buf = <<>> /\ srv.state = "Connected"
        BY <1>5
    <2>2. e \in {"TCP", "WEBSOCKET"}
        BY DEF ServerReads
    <2> QED BY <2>1, <2>2 DEF Talking
<1> HIDE DEF c, r, X, e, x
<1>7. /\ c.buf = <<>> /\ c.end = "message"
      /\ r \in Seq(Talk) /\ Len(r) \in Len(got)..Len(said)
      /\ c.msgs = SubSeq(said, Len(got) + 1, Len(r))
      /\ \A j \in 1..Len(r) : r[j] = said[j]
      /\ Carries(SubSeq(up, k + 1, Len(up)), said, Len(r), n)
    <2>1. /\ c = Messages(<<>> \o SubSeq(up, 1, k))
          /\ said \in Seq(Seq(Nat \X Nat)) /\ got \in Seq(Seq(Nat \X Nat))
        BY <1>3 DEF c, Talk
    <2>2. /\ got \o c.msgs \in Seq(Seq(Nat \X Nat))
          /\ Heard(c, got \o c.msgs, said, got, up, k, n)
        BY <1>1, <1>2, <1>3, <2>1, Understood
    <2>3. r \in Seq(Talk) /\ Heard(c, r, said, got, up, k, n)
        BY <2>2 DEF r, Talk
    <2> QED BY <2>3 DEF Heard
<1>8. /\ srv' = [srv EXCEPT !.buf = <<>>, !.entry = "WEBSOCKET"]
      /\ Sends(X) /\ got' = r /\ up' = SubSeq(up, k + 1, Len(up))
      /\ causes' = causes \cup Cut(up, k) \cup
                   (IF got' # got /\ ~found THEN {"control"} ELSE {})
      /\ UNCHANGED <<link, offer, found, ws, user, said, echoed>>
    <2>1. /\ ServerFrames(<<>> \o SubSeq(up, 1, k))
          /\ up' = SubSeq(up, k + 1, Len(up))
          /\ causes' = causes \cup Cut(up, k) \cup
                       (IF got' # got /\ ~found THEN {"control"} ELSE {})
          /\ UNCHANGED <<link, offer, found, ws, user, said, echoed>>
        BY <1>6 DEF ServerReads, e
    <2>2. /\ srv' = [srv EXCEPT !.buf = c.buf,
                       !.entry = IF c.end = "garbage" THEN "garbled" ELSE @]
          /\ Sends(X) /\ got' = got \o c.msgs
        BY <2>1 DEF ServerFrames, c, X
    <2>3. srv.entry = "WEBSOCKET"
        BY <1>6 DEF e
    <2> QED BY <1>7, <2>1, <2>2, <2>3 DEF r
<1>9. found \/ r = got
    BY <1>8
<1>10. ServerReady' /\ srv'.entry = "WEBSOCKET"
    <2>1. srv' = [entry |-> "WEBSOCKET", path |-> x, parser |-> NewParser,
                  state |-> "Connected", buf |-> <<>>]
        BY <1>5, <1>8
    <2> QED BY <2>1, ServerRecord
<1>11. /\ Len(r) \in Nat /\ Len(got) <= Len(r) /\ Len(r) <= Len(said)
       /\ Len(echoed) <= Len(r)
    BY <1>3, <1>4, <1>7
<1>12. \A i \in 1..Len(got) : i \in 1..Len(r) /\ r[i] = got[i]
    <2>1. \A i \in 1..Len(got) : i \in 1..Len(r)
        BY <1>4, <1>11
    <2> QED BY <1>3, <1>7, <2>1
<1>13. Histories'
    <2>1. \A i \in 1..Len(echoed) : i \in 1..Len(got)
        BY <1>3, <1>4
    <2>2. \A i \in 1..Len(echoed) : echoed[i] = <<r[i]>>
        BY <1>3, <1>12, <2>1
    <2> QED BY <1>3, <1>7, <1>8, <1>11, <2>2 DEF Histories
<1>14. Carries(X, Echo(r), Len(got), Len(r))
    <2> DEFINE M == c.msgs
               g == Len(got)
               l == Len(r)
    <2>1. g \in Nat /\ l \in Nat /\ g <= l /\ l <= Len(said)
        BY <1>4, <1>11
    <2>2. M = SubSeq(said, g + 1, l)
        BY <1>7
    <2> HIDE DEF M, g, l
    <2>3. Len(M) = l - g /\ \A i \in 1..l - g : M[i] = said[g + i]
        BY <1>3, <2>1, <2>2
    <2>4. \A i \in 1..l - g : g + i \in 1..l
        BY <2>1
    <2>5. \A i \in 1..l - g : M[i] = r[g + i]
        BY <1>7, <2>3, <2>4 DEF l
    <2>6. found \/ l = g
        BY <1>9 DEF l, g
    <2>7. /\ Len(M) = Len(r) - g /\ g <= Len(r)
          /\ \A i \in 1..Len(r) - g : M[i] = r[g + i]
          /\ found \/ Len(r) = g
        BY <2>1, <2>3, <2>5, <2>6 DEF l
    <2>8. Carries(Units([i \in 1..Len(M) |-> Reply(M[i])]), Echo(r), g, Len(r))
        BY <1>7, <2>1, <2>7, RepliesCarried
    <2> QED BY <2>8 DEF M, g, X
<1>15. \E l : /\ Carries(down', Echo(r), Len(echoed), l)
              /\ link = "up" => l = Len(r)
    <2>1. PICK l : /\ Carries(down, Echo(got), Len(echoed), l)
                   /\ link = "up" => l = Len(got)
        BY DEF Talking
    <2>2. Carries(down, Echo(r), Len(echoed), l)
        <3> DEFINE S == Echo(got)
                   T == Echo(r)
        <3>1. /\ Len(S) = Len(got) /\ \A i \in 1..Len(got) : S[i] = <<got[i]>>
            BY <1>3, EchoType
        <3>2. /\ Len(T) = Len(r) /\ \A i \in 1..Len(r) : T[i] = <<r[i]>>
            BY <1>7, EchoType
        <3> HIDE DEF S, T
        <3>3. /\ Len(S) \in Nat /\ Len(T) \in Nat /\ Len(T) >= Len(S)
              /\ \A i \in 1..Len(S) : T[i] = S[i]
            BY <1>4, <1>11, <1>12, <3>1, <3>2
        <3>4. Carries(down, S, Len(echoed), l)
            BY <2>1 DEF S
        <3>5. Carries(down, T, Len(echoed), l)
            BY <3>3, <3>4, CarriesStill
        <3> QED BY <3>5 DEF T
    <2>3. CASE link = "up"
        <3>1. down' = down \o X
            BY <1>6, <1>8, <2>3 DEF Sends
        <3>2. Carries(down, Echo(r), Len(echoed), Len(got))
            BY <2>1, <2>2, <2>3
        <3>3. Carries(down \o X, Echo(r), Len(echoed), Len(r))
            BY <1>4, <1>14, <3>2, CarriesMore
        <3> QED BY <3>1, <3>3
    <2>4. CASE link # "up"
        <3>1. down' = down
            BY <1>8, <2>4 DEF Sends
        <3> QED BY <2>2, <2>4, <3>1
    <2> QED BY <2>3, <2>4
<1>16. Talking'
    <2>1. PICK l : /\ Carries(down', Echo(r), Len(echoed), l)
                   /\ link = "up" => l = Len(r)
        BY <1>15
    <2>2. Carries(down', Echo(got'), Len(echoed'), l)
          /\ (link' = "up" => l = Len(got'))
        BY <1>8, <2>1
    <2>3. /\ Carries(up', said', Len(got'), n)
          /\ link' = "up" /\ user' = "send" => n + 1 = Len(said')
          /\ link' = "up" /\ user' # "send" => n = Len(said')
        BY <1>2, <1>7, <1>8
    <2>4. (user = "send" => Pending)'
        BY <1>8 DEF Talking, Pending
    <2>5. /\ ws'.state = "WS" /\ link' \in {"up", "down"} /\ srv'.entry # "TCP"
          /\ (link' = "up" => srv'.entry = "WEBSOCKET")
          /\ (ws'.m_connect = TRUE => link' = "up")
          /\ ws'.msgs \in Seq(Fragments) /\ Len(ws'.msgs) <= 3
        BY <1>8, <1>10 DEF Talking
    <2> QED BY <2>2, <2>3, <2>4, <2>5 DEF Talking
<1>17. ClientReady' /\ IsFiniteSet(offer')
    BY <1>8 DEF Sound, ClientReady
<1> QED BY <1>10, <1>13, <1>16, <1>17 DEF Sound

LEMMA ServerReadsKeeps ==
    ASSUME Sound, NEW k \in 1..Len(up), ServerReads(k),
           causes' \subseteq {"closed"}
    PROVE  Sound'
<1>1. ~Fresh
    BY DEF Fresh, ServerReads
<1>2. Shaking \/ Talking
    BY <1>1 DEF Sound
<1> QED BY <1>2, ServerShakes, ServerListens

\* The invariant is inductive.
LEMMA WSStep == WSInv /\ [WSNext]_wsVars => WSInv'
<1> SUFFICES ASSUME WSInv, [WSNext]_wsVars, causes' \subseteq {"closed"}
             PROVE  Sound'
    BY DEF WSInv
<1>1. causes \subseteq causes'
    BY DEF WSNext, wsVars, ClientUp, ServerUp, Reads, ServerReads, ClientReads,
           ClientDown, ServerDown, SendWS, Send
<1>2. Sound
    BY <1>1 DEF WSInv
<1>3. CASE ClientUp
    BY <1>2, <1>3, ClientUpKeeps
<1>4. CASE ServerUp
    BY <1>2, <1>4, ServerUpKeeps
<1>5. CASE Reads
    BY <1>2, <1>5, ServerReadsKeeps, ClientReadsKeeps DEF Reads
<1>6. CASE ClientDown
    BY <1>2, <1>6, ClientDownKeeps
<1>7. CASE ServerDown
    BY <1>2, <1>7, ServerDownKeeps
<1>8. CASE \E op \in Opcodes, fin \in BOOLEAN : SendWS(op, fin)
    BY <1>2, <1>8, SendWSKeeps
<1>9. CASE Send
    BY <1>2, <1>9, SendKeeps
<1>10. CASE UNCHANGED wsVars
    <2>1. UNCHANGED <<link, offer, found, ws, srv, up, down, user, said, got,
                      echoed, causes>>
        BY <1>10 DEF wsVars, history
    <2>2. ServerReady' /\ ClientReady' /\ Histories' /\ IsFiniteSet(offer')
        BY <1>2, <2>1 DEF Sound, ServerReady, ClientReady, Histories
    <2>3. Silent' = Silent /\ Request' = Request /\ Pending' = Pending
        BY <2>1 DEF Silent, Request, Pending
    <2>4. Fresh => Fresh'
        BY <2>1, <2>3 DEF Fresh
    <2>5. Shaking => Shaking'
        BY <2>1, <2>3 DEF Shaking
    <2>6. Talking => Talking'
        BY <2>1, <2>3 DEF Talking
    <2> QED BY <1>2, <2>2, <2>4, <2>5, <2>6 DEF Sound
<1> QED BY <1>3, <1>4, <1>5, <1>6, <1>7, <1>8, <1>9, <1>10 DEF WSNext

\* The servlet receives, and the client gets back, the client's messages,
\* whole and in order, and nothing waits in a buffer, however many messages
\* are sent and whichever way their frames are read, as long as no read ends
\* inside a message and every message is of at most three data frames.
THEOREM MessagesAlwaysIntact == WSSpec => []MessagesIntact
<1>1. WSInv => MessagesIntact
    <2> SUFFICES ASSUME WSInv, causes \subseteq {"closed"}
                 PROVE  /\ got = SubSeq(said, 1, Len(got))
                        /\ found => echoed =
                               [i \in 1..Len(echoed) |-> <<said[i]>>]
                        /\ srv.buf = <<>> /\ ws.buf = <<>>
        BY DEF MessagesIntact
    <2>1. ServerReady /\ ClientReady /\ Histories
        BY DEF WSInv, Sound
    <2>2. srv.buf = <<>> /\ ws.buf = <<>>
        BY <2>1 DEF ServerReady, ClientReady
    <2>3. /\ said \in Seq(Talk) /\ got \in Seq(Talk)
          /\ echoed \in Seq(Seq(Talk))
          /\ Len(got) <= Len(said) /\ \A i \in 1..Len(got) : got[i] = said[i]
          /\ Len(echoed) <= Len(got)
          /\ \A i \in 1..Len(echoed) : echoed[i] = <<got[i]>>
        BY <2>1 DEF Histories
    <2>4. got = SubSeq(said, 1, Len(got))
        BY <2>3
    <2>5. Len(got) \in Nat /\ Len(echoed) \in Nat
        <3>1. Len(echoed) \in Nat
            BY <2>3
        <3>2. Len(got) \in Nat
            BY <2>3
        <3> QED BY <3>1, <3>2
    <2>6. \A i \in 1..Len(echoed) : i \in 1..Len(got)
        BY <2>3, <2>5
    <2>7. \A i \in 1..Len(echoed) : echoed[i] = <<said[i]>>
        BY <2>3, <2>6
    <2>8. echoed = [i \in 1..Len(echoed) |-> echoed[i]]
        <3> DEFINE W == Seq(Talk)
        <3>1. echoed \in Seq(W)
            BY <2>3
        <3> HIDE DEF W
        <3> QED BY <3>1
    <2>9. echoed = [i \in 1..Len(echoed) |-> <<said[i]>>]
        BY <2>7, <2>8
    <2> QED BY <2>2, <2>4, <2>9
<1> QED BY <1>1, WSStart, WSStep, PTL DEF WSSpec
=============================================================================
