-------------------------- MODULE FunctorExecutor --------------------------
(***************************************************************************)
(* What an event loop promises to the threads that hand it functors        *)
(* (EventLoop::queueInLoop): one thread runs them, one at a time, in the   *)
(* order they were handed over, each of them once.  Nothing is said about  *)
(* when: a loop that is told to quit keeps what it has not started.        *)
(* The module EventLoop is shown to implement this one.                    *)
(***************************************************************************)
EXTENDS Sequences

CONSTANT Functors

VARIABLES
    queue,    \* handed over, not started, in order
    ran       \* started, in order

xvars == <<queue, ran>>

Handed == {queue[i] : i \in DOMAIN queue} \cup {ran[i] : i \in DOMAIN ran}

Init == queue = <<>> /\ ran = <<>>

\* A thread hands over a functor that it has not handed over before.
Submit(f) ==
    /\ f \notin Handed
    /\ queue' = Append(queue, f)
    /\ UNCHANGED ran

\* The executor starts the oldest functor.
Start ==
    /\ queue # <<>>
    /\ ran' = Append(ran, Head(queue))
    /\ queue' = Tail(queue)

Next == Start \/ \E f \in Functors : Submit(f)

Spec == Init /\ [][Next]_xvars
=============================================================================
