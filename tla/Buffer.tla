------------------------------- MODULE Buffer -------------------------------
(***************************************************************************)
(* Buffer (src/shero/net/Buffer.h, Buffer.cc): a vector of bytes with a    *)
(* read and a write index, that compacts or grows when a write does not    *)
(* fit.  A buffer is a record: mem is m_buffer (mem[i+1] the byte at index *)
(* i), r is m_readIndex, w is m_writeIndex.                                *)
(*                                                                         *)
(* Bounds, for TLC only: one call writes or delivers at most MaxLen bytes, *)
(* and no more than MaxContent bytes are readable at a time.               *)
(***************************************************************************)
EXTENDS Naturals, Sequences

CONSTANTS
    Bytes,
    Zero,             \* the byte resize() fills with
    FreePrepend,      \* m_freePrepend (8)
    InitialSize,      \* m_initialSize (1024)
    ExtraSize,        \* the stack buffer of readFd (65536)
    MaxLen,
    MaxContent

ASSUME BytesAssumption == Zero \in Bytes
ASSUME SizesAssumption ==
    FreePrepend \in Nat /\ InitialSize \in Nat /\ ExtraSize \in Nat
ASSUME BoundsAssumption == MaxLen \in Nat /\ MaxContent \in Nat

VARIABLES
    b,        \* the buffer
    got       \* what the last read handed to its caller

vars == <<b, got>>

NewBuffer ==
    [mem |-> [i \in 1..(FreePrepend + InitialSize) |-> Zero],
     r |-> FreePrepend, w |-> FreePrepend]

readableBytes(x) == x.w - x.r
writeableBytes(x) == Len(x.mem) - x.w
prependableBytes(x) == x.r

\* The readable bytes, in order.
Content(x) == [i \in 1..readableBytes(x) |-> x.mem[x.r + i]]

\* Variant: room is made at the front without keeping m_freePrepend free.
fitsAfterCompaction_NoPrepend(x, n) ==
    writeableBytes(x) + prependableBytes(x) >= n

\* The test of resizeBuffer.
fitsAfterCompaction(x, n) ==
    writeableBytes(x) + prependableBytes(x) >= n + FreePrepend

\* Variant: m_readIndex is moved before std::copy reads it, so that nothing
\* is copied.
compacted_IndicesFirst(x) ==
    [mem |-> x.mem, r |-> FreePrepend, w |-> FreePrepend + readableBytes(x)]

\* std::copy to prependIndex(), and the indices follow.
compacted(x) ==
    [mem |-> [i \in 1..Len(x.mem) |->
                 IF i > FreePrepend /\ i <= FreePrepend + readableBytes(x)
                 THEN x.mem[x.r + (i - FreePrepend)] ELSE x.mem[i]],
     r |-> FreePrepend,
     w |-> FreePrepend + readableBytes(x)]

\* m_buffer.resize(m_writeIndex + len)
grown(x, n) ==
    [x EXCEPT !.mem = [i \in 1..(x.w + n) |->
                          IF i <= Len(x.mem) THEN x.mem[i] ELSE Zero]]

resizeBuffer(x, n) == IF fitsAfterCompaction(x, n) THEN compacted(x)
                      ELSE grown(x, n)

ensureWriteableBytes(x, n) ==
    IF writeableBytes(x) < n THEN resizeBuffer(x, n) ELSE x

\* memcpy(writeIndex(), d, len); m_writeIndex += len
copyIn(x, d) ==
    [mem |-> [i \in 1..Len(x.mem) |->
                 IF i > x.w /\ i <= x.w + Len(d)
                 THEN d[i - x.w] ELSE x.mem[i]],
     r |-> x.r,
     w |-> x.w + Len(d)]

writeLen(x, d) == copyIn(ensureWriteableBytes(x, Len(d)), d)

\* readFd when readv delivered d: into the free space, the rest through the
\* stack buffer.
readFd(x, d) ==
    LET n == writeableBytes(x)
    IN  IF Len(d) <= n THEN copyIn(x, d)
        ELSE writeLen(copyIn(x, SubSeq(d, 1, n)), SubSeq(d, n + 1, Len(d)))

retrieveAll(x) == [x EXCEPT !.r = FreePrepend, !.w = FreePrepend]

retrieve(x, n) ==
    IF readableBytes(x) < n THEN retrieveAll(x) ELSE [x EXCEPT !.r = x.r + n]

-----------------------------------------------------------------------------
Init == b = NewBuffer /\ got = <<>>

\* writeLen, and the fixed-size and varint writers built on it.
Write(d) ==
    /\ readableBytes(b) + Len(d) <= MaxContent
    /\ b' = writeLen(b, d)
    /\ UNCHANGED got

\* readv delivers no more than the room it was given.
ReadFd(d) ==
    /\ Len(d) <= writeableBytes(b)
                   + (IF writeableBytes(b) < ExtraSize THEN ExtraSize ELSE 0)
    /\ readableBytes(b) + Len(d) <= MaxContent
    /\ b' = readFd(b, d)
    /\ UNCHANGED got

\* readLen and retrieveAsString copy n bytes out and retrieve them.  Their
\* callers ask for no more than is readable: the fixed-size readers test it.
Read(n) ==
    /\ n <= readableBytes(b)
    /\ got' = [i \in 1..n |-> b.mem[b.r + i]]
    /\ b' = retrieve(b, n)

\* retrieve, retrieveUntil and retrieveAll, for any length: a longer one than
\* is readable empties the buffer.
Retrieve(n) ==
    /\ b' = retrieve(b, n)
    /\ UNCHANGED got

Lengths == 0..(MaxContent + 1)
Strings == UNION {[1..n -> Bytes] : n \in 0..MaxLen}

Next ==
    \/ \E d \in Strings : Write(d) \/ ReadFd(d)
    \/ \E n \in Lengths : Read(n) \/ Retrieve(n)

Spec == Init /\ [][Next]_vars

-----------------------------------------------------------------------------
(* Properties.                                                             *)

\* The indices stay in order and inside the vector: no write of writeLen or
\* readFd lands outside m_buffer, and the prepend area is never overrun.
IndicesInBounds ==
    FreePrepend <= b.r /\ b.r <= b.w /\ b.w <= Len(b.mem)

\* Compaction, growth and the two-part read keep the bytes: the buffer is a
\* first-in first-out queue of its readable bytes.
Queue == INSTANCE ByteQueue WITH q <- Content(b)
ImplementsQueue == Queue!Spec

\* The vector never shrinks, and a write that fits after compaction does not
\* make it grow: growth is bounded by what has to be stored.
GrowthBounded ==
    [][/\ Len(b'.mem) >= Len(b.mem)
       /\ Len(b'.mem) > Len(b.mem) =>
            FreePrepend + readableBytes(b') > Len(b.mem)]_vars
=============================================================================
