----------------------------- MODULE ByteQueue -----------------------------
(***************************************************************************)
(* What a Buffer promises: a first-in first-out queue of bytes.            *)
(***************************************************************************)
EXTENDS Naturals, Sequences

CONSTANTS
    Strings,      \* the byte sequences that may be put
    Lengths       \* the lengths that may be asked for

VARIABLES
    q,      \* the readable bytes
    got     \* the bytes the last read handed to its caller

qvars == <<q, got>>

Init == q = <<>> /\ got = <<>>

Put(d) == q' = q \o d /\ got' = got

Take(n) ==
    /\ n <= Len(q)
    /\ got' = SubSeq(q, 1, n)
    /\ q' = SubSeq(q, n + 1, Len(q))

Drop(n) ==
    /\ q' = IF n > Len(q) THEN <<>> ELSE SubSeq(q, n + 1, Len(q))
    /\ got' = got

Next == \/ \E d \in Strings : Put(d)
        \/ \E n \in Lengths : Take(n) \/ Drop(n)

Spec == Init /\ [][Next]_qvars
=============================================================================
